---- MODULE Spec2Model ----
(***************************************************************************)
(* Model of the template rendering engine of le_middle_instagram_agent:    *)
(* the font cache, the greedy word wrapper, the adaptive font-fit search,  *)
(* the gradient engine, the quote card layout, the photo effects and crop, *)
(* the numeral card, the content file commands and the publishing service. *)
(*                                                                         *)
(* Python strings that are only compared or concatenated are TLA+ strings; *)
(* texts whose characters are inspected are sequences of 1-character       *)
(* strings.  Pillow's text measurement is an environment input: the font   *)
(* metrics are drawn from small sets at Init and stay fixed afterwards     *)
(* (fixed asset directory).                                                *)
(***************************************************************************)
EXTENDS Integers, Sequences, FiniteSets, Bags, TLC

VARIABLES
  fontFiles,     \* names of the font files present in FONTS_DIR
  fonts_cache,   \* per generator instance: cache_key -> font handle
  handles,       \* number of font objects created so far
  warnings,      \* number of "Font ... not found" warnings printed
  callLog,       \* history of the direct load_font calls and their results
  wText,         \* wrap_text argument text
  wFont,         \* wrap_text argument font (its advance widths)
  wMaxWidth,     \* wrap_text argument max_width
  wLines,        \* value returned by wrap_text
  wPc,           \* "call" before wrap_text ran, "done" after it returned
  fText,         \* _find_optimal_font_size argument text
  fMetric,       \* glyph metrics of the font file named font_name
  fPc,           \* position in _find_optimal_font_size
  fSize,         \* loop variable size
  best_font,     \* local best_font
  best_score,    \* local best_score, as a multiple of 1/(target_height*target_width)
  best_size,     \* size at which best_font was last assigned
  probes,        \* number of sizes measured so far
  fallback,      \* TRUE once the coarse scan of lines 84-94 was entered
  fResult,       \* font returned by _find_optimal_font_size
  pContent,      \* content record of the last PhraseGenerator.generate call
  pFont,         \* glyph metrics of the body font of the quote card
  card_width,    \* PhraseGenerator.card_width, set by __init__
  lines,         \* generate: wrapped body text
  line_height,   \* generate: line_height
  card_height,   \* generate: card_height
  card_x,        \* generate: card_x
  card_y,        \* generate: card_y
  pPrev,         \* text, line count and card_height of the render before
  pImage,        \* size of the image returned by generate
  pDrawn,        \* generate: the (x, y) each line of the text was drawn at
  pPc,           \* "ready" after __init__, "rendered" after a generate call
  gFn,           \* gradient function called
  gWidth,        \* argument width
  gHeight,       \* argument height
  gStart,        \* argument color_start, a hex colour string
  gEnd,          \* argument color_end, a hex colour string
  gDirection,    \* argument direction
  raster,        \* returned image: <<x, y>> -> <<r, g, b>>
  gPc,           \* "call" before the gradient function ran, "done" after
  phEnv,         \* what the photo sources, the logo file and Unsplash do
  phContent,     \* content record of the last PhotoGenerator.generate call
  phSteps,       \* image operations performed by that call, in order
  phNet,         \* network requests issued by that call
  phStatus,      \* "ready", then "ok" (image returned) or "error" (raised)
  cContent,      \* content record of the last ChiffreGenerator.generate call
  cMetric,       \* glyph metrics of LibreBaskerville-Regular.ttf
  cTextMetric,   \* glyph metrics of Satoshi-Regular.otf
  cLayout,       \* what that call measured, placed and returned
  cWarm,         \* number rendered by the call before it, "none" when first
  cPc,           \* "ready" after __init__, "rendered" after a generate call
  posts,         \* the posts of data/content.json
  lastCmd,       \* the last command run and the content file before it
  lastPubType,   \* type published by the last unforced publish-next run
  feed,          \* bag of the post ids published on the Instagram account
  srcImg,        \* size of the image handed to resize_and_crop_to_fit
  cropBox,       \* the box that call handed to Image.crop
  resized,       \* what that call returned
  igPc,          \* position of the publish_image call in progress
  igWait,        \* its wait_for_ready argument
  igElapsed,     \* seconds since wait_for_container_ready started
  igTrace,       \* the service methods publish_image has called, in order
  igStatus,      \* status_code of the last check_container_status answer
  igResult       \* the result dictionary of publish_image

fontVars == <<fontFiles, fonts_cache, handles, warnings, callLog>>

wrapVars == <<wText, wFont, wMaxWidth, wLines, wPc>>

fitVars == <<fText, fMetric, fPc, fSize, best_font, best_score, best_size,
             probes, fallback, fResult>>

phraseVars == <<pContent, pFont, card_width, lines, line_height, card_height,
                card_x, card_y, pPrev, pImage, pDrawn, pPc>>

gradVars == <<gFn, gWidth, gHeight, gStart, gEnd, gDirection, raster, gPc>>

photoVars == <<phEnv, phContent, phSteps, phNet, phStatus>>

chiffreVars == <<cContent, cMetric, cTextMetric, cLayout, cWarm, cPc>>

schedVars == <<posts, lastCmd, lastPubType, feed>>

cropVars == <<srcImg, cropBox, resized>>

igVars == <<igPc, igWait, igElapsed, igTrace, igStatus, igResult>>

extraVars == <<cropVars, igVars>>

restVars == <<chiffreVars, schedVars, extraVars>>

vars == <<fontFiles, fonts_cache, handles, warnings, callLog,
          wText, wFont, wMaxWidth, wLines, wPc,
          fText, fMetric, fPc, fSize, best_font, best_score, best_size,
          probes, fallback, fResult,
          pContent, pFont, card_width, lines, line_height, card_height,
          card_x, card_y, pPrev, pImage, pDrawn, pPc,
          gFn, gWidth, gHeight, gStart, gEnd, gDirection, raster, gPc,
          phEnv, phContent, phSteps, phNet, phStatus,
          cContent, cMetric, cTextMetric, cLayout, cWarm, cPc,
          posts, lastCmd, lastPubType, feed,
          srcImg, cropBox, resized,
          igPc, igWait, igElapsed, igTrace, igStatus, igResult>>

----------------------------------------------------------------------------
(* Bounds *)

MaxCalls == 4      \* direct load_font calls in one behaviour

MaxTextLen == 5    \* characters of a text handed to wrap_text

MaxPhraseLen == 4  \* characters of the body text of a quote card

MaxDim == 3        \* width and height of a gradient raster

MaxPosts == 3      \* posts in data/content.json

MaxSide == 12      \* the small source images are up to MaxSide pixels a side

MaxLatency == 5    \* seconds one check_container_status request may take

----------------------------------------------------------------------------
(* config/settings.py *)

IMAGE_SIZE == <<1080, 1350>>

W == IMAGE_SIZE[1]

H == IMAGE_SIZE[2]

----------------------------------------------------------------------------
(* Font cache: BaseGenerator.__init__, BaseGenerator.load_font *)

Generators == {"chiffre", "phrase", "photo"}

None == [id |-> 0, face |-> "None", size |-> 0]

\* font_name and size arguments used for the direct calls of load_font
CallFontNames == {"Satoshi-Regular.otf", "Satoshi-Regular.otf_3"}

CallSizes == {2, 32}

EmptyCache == [k \in {} |-> None]

\* cache_key = f"{font_name}_{size}"
cache_key(font_name, size) == font_name \o "_" \o ToString(size)

\* ImageFont.truetype(path, size): a new font object of that face and size
truetype(id, font_name, size) == [id |-> id, face |-> font_name, size |-> size]

\* ImageFont.load_default(): a new object of the built-in font
load_default(id) == [id |-> id, face |-> "default", size |-> 0]

load_font_reload(cache, n, files, font_name, size) ==
  LET key == cache_key(font_name, size)
      font == IF font_name \in files
                THEN truetype(n + 1, font_name, size)
                ELSE load_default(n + 1)
  IN [cache |-> (key :> font) @@ cache, n |-> n + 1, font |-> font,
      warned |-> IF font_name \in files THEN 0 ELSE 1]

load_font_stale(cache, n, files, font_name, size) ==
  LET key == cache_key(font_name, size)
  IN IF key \notin DOMAIN cache
       THEN LET font == IF font_name \in files
                          THEN truetype(n + 1, font_name, size)
                          ELSE load_default(n + 1)
            IN [cache |-> (key :> load_default(n + 1)) @@ cache, n |-> n + 1,
                font |-> font,
                warned |-> IF font_name \in files THEN 0 ELSE 1]
       ELSE [cache |-> cache, n |-> n, font |-> cache[key], warned |-> 0]

load_font_fallback_unstored(cache, n, files, font_name, size) ==
  LET key == cache_key(font_name, size)
  IN IF key \notin DOMAIN cache
       THEN IF font_name \in files
              THEN LET font == truetype(n + 1, font_name, size)
                   IN [cache |-> (key :> font) @@ cache, n |-> n + 1,
                       font |-> font, warned |-> 0]
              ELSE [cache |-> cache, n |-> n + 1, font |-> load_default(n + 1),
                    warned |-> 1]
       ELSE [cache |-> cache, n |-> n, font |-> cache[key], warned |-> 0]

\* load_font on a generator whose cache is `cache`, `n` font objects having
\* been created so far and `files` being the font files that exist.
\* Result: the new cache, the new object count, the returned handle and the
\* number of warnings printed.
load_font(cache, n, files, font_name, size) ==
  LET key == cache_key(font_name, size)
  IN IF key \notin DOMAIN cache
       THEN LET font == IF font_name \in files
                          THEN truetype(n + 1, font_name, size)
                          ELSE load_default(n + 1)
            IN [cache |-> (key :> font) @@ cache, n |-> n + 1, font |-> font,
                warned |-> IF font_name \in files THEN 0 ELSE 1]
       ELSE [cache |-> cache, n |-> n, font |-> cache[key], warned |-> 0]

InitFontState ==
  /\ fontFiles \in SUBSET CallFontNames
  /\ fonts_cache = [g \in Generators |-> EmptyCache]
  /\ handles = 0
  /\ warnings = 0
  /\ callLog = << >>

\* one call generator.load_font(font_name, size)
LoadFontCall(g, font_name, size) ==
  /\ Len(callLog) < MaxCalls
  /\ LET r == load_font(fonts_cache[g], handles, fontFiles, font_name, size)
     IN /\ fonts_cache' = [fonts_cache EXCEPT ![g] = r.cache]
        /\ handles' = r.n
        /\ warnings' = warnings + r.warned
        /\ callLog' = Append(callLog,
                        [g |-> g, font_name |-> font_name, size |-> size,
                         font |-> r.font, loaded |-> r.n # handles,
                         warned |-> r.warned])
  /\ UNCHANGED fontFiles
  /\ UNCHANGED <<wrapVars, fitVars, phraseVars, gradVars, photoVars, restVars>>

IdleWrap ==
  /\ wText = << >>
  /\ wFont = [a |-> 0, b |-> 0, sp |-> 0]
  /\ wMaxWidth = 0
  /\ wLines = << >>
  /\ wPc = "idle"

Inf == -1

IdleFit ==
  /\ fText = ""
  /\ fMetric = [hn |-> 0, wn |-> 0]
  /\ fPc = "idle"
  /\ fSize = 0
  /\ best_font = None
  /\ best_score = Inf
  /\ best_size = 0
  /\ probes = 0
  /\ fallback = FALSE
  /\ fResult = None

NoFields == [k \in {} |-> 0]

NoRender == [rendered |-> FALSE, text |-> << >>, nlines |-> 0,
             card_height |-> 0]

IdlePhrase ==
  /\ pContent = NoFields
  /\ pFont = [a |-> 0, b |-> 0, sp |-> 0, ay |-> 0]
  /\ card_width = 0
  /\ lines = << >>
  /\ line_height = 0
  /\ card_height = 0
  /\ card_x = 0
  /\ card_y = 0
  /\ pPrev = NoRender
  /\ pImage = [width |-> 0, height |-> 0]
  /\ pDrawn = << >>
  /\ pPc = "idle"

IdleGradient ==
  /\ gFn = "none"
  /\ gWidth = 0
  /\ gHeight = 0
  /\ gStart = << >>
  /\ gEnd = << >>
  /\ gDirection = "vertical"
  /\ raster = << >>
  /\ gPc = "idle"

IdlePhoto ==
  /\ phEnv = [unsplash |-> "not_ready", source_ok |-> FALSE, logo |-> FALSE]
  /\ phContent = NoFields
  /\ phSteps = << >>
  /\ phNet = 0
  /\ phStatus = "idle"

NoLayout == [k \in {} |-> 0]

IdleChiffre ==
  /\ cContent = NoFields
  /\ cMetric = [hn |-> 0, wn |-> 0]
  /\ cTextMetric = [a |-> 0, b |-> 0, sp |-> 0, ay |-> 0]
  /\ cLayout = NoLayout
  /\ cWarm = "none"
  /\ cPc = "idle"

NoCommand == [cmd |-> "none", before |-> << >>, batch |-> {}, raised |-> {},
              saves |-> 0, forced |-> FALSE, index |-> 0, prev |-> "none",
              submitted |-> 0, feed |-> EmptyBag, force_used |-> FALSE]

IdleSched ==
  /\ posts = << >>
  /\ lastCmd = NoCommand
  /\ lastPubType = "idle"
  /\ feed = EmptyBag

NoImage == [width |-> 0, height |-> 0]

NoBox == [left |-> 0, upper |-> 0, right |-> 0, lower |-> 0]

NoResize == [raised |-> FALSE, width |-> 0, height |-> 0]

IdleCrop ==
  /\ srcImg = NoImage
  /\ cropBox = NoBox
  /\ resized = NoResize

new_result == [image_url |-> "None", container_id |-> "None",
               media_id |-> "None", status |-> "pending"]

IdleIg ==
  /\ igPc = "idle"
  /\ igWait = TRUE
  /\ igElapsed = 0
  /\ igTrace = << >>
  /\ igStatus = "None"
  /\ igResult = new_result

IdleExtra == IdleCrop /\ IdleIg

IdleRest == IdleChiffre /\ IdleSched /\ IdleExtra

InitFont ==
  /\ InitFontState
  /\ IdleWrap
  /\ IdleFit
  /\ IdlePhrase
  /\ IdleGradient
  /\ IdlePhoto
  /\ IdleRest

NextFont ==
  \E g \in Generators, font_name \in CallFontNames, size \in CallSizes :
    LoadFontCall(g, font_name, size)

SpecFont == InitFont /\ [][NextFont]_vars

----------------------------------------------------------------------------
(* Text wrapping: BaseGenerator.wrap_text *)

Whitespace == {" ", "\t"}

Alphabet == {"a", "b"} \cup Whitespace

RECURSIVE SeqsUpTo(_, _)
SeqsUpTo(chars, n) ==
  IF n = 0 THEN {<< >>}
  ELSE LET shorter == SeqsUpTo(chars, n - 1)
       IN shorter \cup {Append(t, c) : t \in {u \in shorter : Len(u) = n - 1},
                                       c \in chars}

Texts == SeqsUpTo(Alphabet, MaxTextLen)

\* advance widths of the glyphs of a font, in pixels
WrapFonts == {[a |-> 1, b |-> 2, sp |-> 1],
              [a |-> 2, b |-> 3, sp |-> 0],
              [a |-> 1, b |-> 5, sp |-> 2]}

WrapWidths == {0, 2, 4, 7}

\* draw.textbbox((0, 0), s, font=font): bbox[2] - bbox[0]
RECURSIVE textwidth(_, _)
textwidth(font, s) ==
  IF s = << >> THEN 0
  ELSE (CASE Head(s) = "a" -> font.a
          [] Head(s) = "b" -> font.b
          [] OTHER -> font.sp) + textwidth(font, Tail(s))

\* str.split(): the maximal runs of non-whitespace characters, in order
RECURSIVE split_from(_, _, _)
split_from(text, words, word) ==
  IF text = << >>
    THEN IF word = << >> THEN words ELSE Append(words, word)
    ELSE IF Head(text) \in Whitespace
           THEN split_from(Tail(text),
                           IF word = << >> THEN words ELSE Append(words, word),
                           << >>)
           ELSE split_from(Tail(text), words, Append(word, Head(text)))

split(text) == split_from(text, << >>, << >>)

\* str.strip(): leading and trailing whitespace removed
RECURSIVE lstrip(_)
lstrip(s) ==
  IF s # << >> /\ Head(s) \in Whitespace THEN lstrip(Tail(s)) ELSE s

RECURSIVE rstrip(_)
rstrip(s) ==
  IF s # << >> /\ s[Len(s)] \in Whitespace
    THEN rstrip(SubSeq(s, 1, Len(s) - 1)) ELSE s

strip(s) == rstrip(lstrip(s))

fits_word_only(font, current_line, word, max_width) ==
  textwidth(font, word) <= max_width

\* lines 94-96: test_line = f"{current_line} {word}".strip() is measured
\* and compared with max_width
fits(font, current_line, word, max_width) ==
  textwidth(font, strip(current_line \o <<" ">> \o word)) <= max_width

commit_drop(lns, current_line) == lns

\* lns 99-100 and 103-104: if current_line: lns.append(current_line)
commit(lns, current_line) ==
  IF current_line # << >> THEN Append(lns, current_line) ELSE lns

RECURSIVE wrap_loop(_, _, _, _, _)
wrap_loop(words, font, max_width, lns, current_line) ==
  IF words = << >>
    THEN commit(lns, current_line)
    ELSE LET word == Head(words)
         IN IF fits(font, current_line, word, max_width)
              THEN wrap_loop(Tail(words), font, max_width, lns,
                             strip(current_line \o <<" ">> \o word))
              ELSE wrap_loop(Tail(words), font, max_width,
                             commit(lns, current_line), word)

wrap_text(text, font, max_width) ==
  wrap_loop(split(text), font, max_width, << >>, << >>)

IdleFont ==
  /\ fontFiles = {}
  /\ fonts_cache = [g \in Generators |-> EmptyCache]
  /\ handles = 0
  /\ warnings = 0
  /\ callLog = << >>

InitWrap ==
  /\ wText \in Texts
  /\ wFont \in WrapFonts
  /\ wMaxWidth \in WrapWidths
  /\ wLines = << >>
  /\ wPc = "call"
  /\ IdleFont
  /\ IdleFit
  /\ IdlePhrase
  /\ IdleGradient
  /\ IdlePhoto
  /\ IdleRest

WrapCall ==
  /\ wPc = "call"
  /\ wLines' = wrap_text(wText, wFont, wMaxWidth)
  /\ wPc' = "done"
  /\ UNCHANGED <<wText, wFont, wMaxWidth>>
  /\ UNCHANGED <<fontVars, fitVars, phraseVars, gradVars, photoVars, restVars>>

NextWrap == WrapCall

SpecWrap == InitWrap /\ [][NextWrap]_vars

----------------------------------------------------------------------------
(* Adaptive font-fit search: ChiffreGenerator._find_optimal_font_size *)

NumberFont == "LibreBaskerville-Regular.ttf"

Numerals == {"", "0", "19", "999", "1000000"}

\* glyph metrics of the numeral font, in hundredths of the font size:
\* height of a digit, advance width of a digit, and the offset (left, top)
\* of the bounding box of a text drawn at the origin
Metrics == {[hn |-> 100, wn |-> 37, left |-> 4, top |-> 21],
            [hn |-> 150, wn |-> 200, left |-> 0, top |-> 0],
            [hn |-> 81, wn |-> 30, left |-> -3, top |-> 12]}

\* bounding box of one digit in the built-in fallback font
DefaultGlyph == [h |-> 11, w |-> 6, left |-> 0, top |-> 3]

\* temp_draw.textbbox((0, 0), text, font=font): bbox[3] - bbox[1]
text_height(font, metric, text) ==
  IF Len(text) = 0 THEN 0
  ELSE IF font.face = "default" THEN DefaultGlyph.h
  ELSE (font.size * metric.hn) \div 100

\* temp_draw.textbbox((0, 0), text, font=font): bbox[2] - bbox[0]
text_width(font, metric, text) ==
  IF font.face = "default" THEN DefaultGlyph.w * Len(text)
  ELSE (font.size * metric.wn * Len(text)) \div 100

\* int(self.height * 0.60) and int(self.width * 0.56), the ratios passed
\* by ChiffreGenerator.generate
target_height == (H * 60) \div 100

target_width == (W * 56) \div 100

min_size == 50

max_size == 1000

fine_step == 5

coarse_step == 10

default_size == 350

Abs(x) == IF x < 0 THEN -x ELSE x

out_of_tolerance_both(text_h, text_w) ==
  /\ Abs(text_h - target_height) * 100 > 5 * target_height
  /\ Abs(text_w - target_width) * 100 > 5 * target_width

\* line 71: height_diff > 0.05 or width_diff > 0.05
out_of_tolerance(text_h, text_w) ==
  \/ Abs(text_h - target_height) * 100 > 5 * target_height
  \/ Abs(text_w - target_width) * 100 > 5 * target_width

score_of_height(text_h, text_w) == Abs(text_h - target_height) * target_width

\* line 67: score = height_diff + width_diff, times target_height*target_width
score_of(text_h, text_w) ==
  Abs(text_h - target_height) * target_width
    + Abs(text_w - target_width) * target_height

fits_target_height(text_h, text_w) == text_h <= target_height

\* line 91: text_height <= target_height and text_width <= target_width
fits_target(text_h, text_w) ==
  text_h <= target_height /\ text_w <= target_width

returned_font_best(best, default_font) == best

\* line 96: best_font if best_font is not None else the font of size 350
returned_font(best, default_font) ==
  IF best # None THEN best ELSE default_font

InitFit ==
  /\ fontFiles \in {{}, {NumberFont}}
  /\ fonts_cache = [g \in Generators |-> EmptyCache]
  /\ handles = 0
  /\ warnings = 0
  /\ callLog = << >>
  /\ fText \in Numerals
  /\ fMetric \in Metrics
  /\ fPc = "call"
  /\ fSize = 0
  /\ best_font = None
  /\ best_score = Inf
  /\ best_size = 0
  /\ probes = 0
  /\ fallback = FALSE
  /\ fResult = None
  /\ IdleWrap
  /\ IdlePhrase
  /\ IdleGradient
  /\ IdlePhoto
  /\ IdleRest

\* lines 42-56: locals initialised, the fine scan starts at min_size
FitStart ==
  /\ fPc = "call"
  /\ fPc' = "fine"
  /\ fSize' = min_size
  /\ best_font' = None
  /\ best_score' = Inf
  /\ UNCHANGED <<fText, fMetric, best_size, probes, fallback, fResult>>
  /\ UNCHANGED <<fontVars, wrapVars, phraseVars, gradVars, photoVars, restVars>>

\* lines 56-81: one iteration of the fine scan
FineProbe ==
  /\ fPc = "fine"
  /\ fSize <= max_size
  /\ LET r == load_font(fonts_cache["chiffre"], handles, fontFiles,
                        NumberFont, fSize)
         text_h == text_height(r.font, fMetric, fText)
         text_w == text_width(r.font, fMetric, fText)
         score == score_of(text_h, text_w)
     IN /\ fonts_cache' = [fonts_cache EXCEPT !["chiffre"] = r.cache]
        /\ handles' = r.n
        /\ warnings' = warnings + r.warned
        /\ probes' = probes + 1
        /\ IF out_of_tolerance(text_h, text_w)
             THEN IF best_font = None
                    THEN /\ fSize' = fSize + fine_step
                         /\ UNCHANGED <<fPc, best_font, best_score, best_size>>
                    ELSE /\ fPc' = "check"
                         /\ UNCHANGED <<fSize, best_font, best_score, best_size>>
             ELSE /\ fSize' = fSize + fine_step
                  /\ fPc' = fPc
                  /\ IF best_score = Inf \/ score < best_score
                       THEN /\ best_score' = score
                            /\ best_font' = r.font
                            /\ best_size' = fSize
                       ELSE UNCHANGED <<best_font, best_score, best_size>>
  /\ UNCHANGED <<fText, fMetric, fallback, fResult>>
  /\ UNCHANGED <<fontFiles, callLog, wrapVars, phraseVars, gradVars,
                 photoVars, restVars>>

\* line 56: the range of the fine scan is exhausted
FineEnd ==
  /\ fPc = "fine"
  /\ fSize > max_size
  /\ fPc' = "check"
  /\ UNCHANGED <<fText, fMetric, fSize, best_font, best_score, best_size,
                 probes, fallback, fResult>>
  /\ UNCHANGED <<fontVars, wrapVars, phraseVars, gradVars, photoVars, restVars>>

\* lines 84-85: the coarse scan is entered only when best_font is None
FitCheck ==
  /\ fPc = "check"
  /\ IF best_font = None
       THEN /\ fPc' = "coarse"
            /\ fSize' = min_size
            /\ fallback' = TRUE
       ELSE /\ fPc' = "return"
            /\ UNCHANGED <<fSize, fallback>>
  /\ UNCHANGED <<fText, fMetric, best_font, best_score, best_size, probes,
                 fResult>>
  /\ UNCHANGED <<fontVars, wrapVars, phraseVars, gradVars, photoVars, restVars>>

\* lines 85-94: one iteration of the coarse scan
CoarseProbe ==
  /\ fPc = "coarse"
  /\ fSize <= max_size
  /\ LET r == load_font(fonts_cache["chiffre"], handles, fontFiles,
                        NumberFont, fSize)
         text_h == text_height(r.font, fMetric, fText)
         text_w == text_width(r.font, fMetric, fText)
     IN /\ fonts_cache' = [fonts_cache EXCEPT !["chiffre"] = r.cache]
        /\ handles' = r.n
        /\ warnings' = warnings + r.warned
        /\ probes' = probes + 1
        /\ IF fits_target(text_h, text_w)
             THEN /\ best_font' = r.font
                  /\ best_size' = fSize
                  /\ fSize' = fSize + coarse_step
                  /\ fPc' = fPc
             ELSE /\ fPc' = "return"
                  /\ UNCHANGED <<best_font, best_size, fSize>>
  /\ UNCHANGED <<fText, fMetric, best_score, fallback, fResult>>
  /\ UNCHANGED <<fontFiles, callLog, wrapVars, phraseVars, gradVars,
                 photoVars, restVars>>

\* line 85: the range of the coarse scan is exhausted
CoarseEnd ==
  /\ fPc = "coarse"
  /\ fSize > max_size
  /\ fPc' = "return"
  /\ UNCHANGED <<fText, fMetric, fSize, best_font, best_score, best_size,
                 probes, fallback, fResult>>
  /\ UNCHANGED <<fontVars, wrapVars, phraseVars, gradVars, photoVars, restVars>>

\* line 96: the return statement; load_font(font_name, 350) is evaluated
\* only when best_font is None
FitReturn ==
  /\ fPc = "return"
  /\ IF best_font # None
       THEN /\ fResult' = returned_font(best_font, None)
            /\ UNCHANGED <<best_size, fonts_cache, handles, warnings>>
       ELSE LET r == load_font(fonts_cache["chiffre"], handles, fontFiles,
                               NumberFont, default_size)
            IN /\ fResult' = returned_font(best_font, r.font)
               /\ best_size' = default_size
               /\ fonts_cache' = [fonts_cache EXCEPT !["chiffre"] = r.cache]
               /\ handles' = r.n
               /\ warnings' = warnings + r.warned
  /\ fPc' = "done"
  /\ UNCHANGED <<fText, fMetric, fSize, best_font, best_score, probes,
                 fallback>>
  /\ UNCHANGED <<fontFiles, callLog, wrapVars, phraseVars, gradVars,
                 photoVars, restVars>>

NextFit ==
  \/ FitStart
  \/ FineProbe
  \/ FineEnd
  \/ FitCheck
  \/ CoarseProbe
  \/ CoarseEnd
  \/ FitReturn

\* the search is one sequential function call: it keeps running until it
\* returns
SpecFit == InitFit /\ [][NextFit]_vars /\ WF_vars(NextFit)

----------------------------------------------------------------------------
(* Quote card: PhraseGenerator.__init__, calculate_text_height, generate *)

\* FONT_SIZES["phrase"]
phrase_header_size == 24

phrase_text_size == 32

phrase_tagline_size == 30

PhraseFontNames ==
  {"Satoshi-Regular.otf", "Satoshi-Bold.otf", "LibreBaskerville-Italic.ttf"}

PhraseTexts == SeqsUpTo({"a", " "}, MaxPhraseLen)

\* content records: the field text is present or absent
PhraseContents == {NoFields} \cup {[text |-> t] : t \in PhraseTexts}

\* dict.get(key, default)
get(content, key, default) ==
  IF key \in DOMAIN content THEN content[key] ELSE default

\* metrics of the body font: advance widths of the glyphs and height of the
\* bounding box of "Ay", in pixels.  The metrics are large enough for a text
\* of MaxPhraseLen characters to wrap at the 784 pixels of the card and for
\* the card to outgrow the canvas.
PhraseFonts == {[a |-> 300, b |-> 300, sp |-> 200, ay |-> 25],
                [a |-> 400, b |-> 400, sp |-> 100, ay |-> 400],
                [a |-> 800, b |-> 800, sp |-> 50, ay |-> 780]}

card_padding_h == 40

card_padding_v == 30

header_height == 80

text_area_padding == 40

tagline_band == 150

\* line 31: int(self.width * 0.80)
card_width_init == (W * 80) \div 100

\* lines 93-94: int((bbox[3] - bbox[1]) * 1.35) for the bounding box of "Ay"
line_height_of(font) == (font.ay * 135) \div 100

card_height_no_padding(text_total_height) ==
  header_height + text_total_height + card_padding_v

card_height_minus(text_total_height) ==
  header_height - text_total_height + text_area_padding + card_padding_v

\* line 144
card_height_of(text_total_height) ==
  header_height + text_total_height + text_area_padding + card_padding_v

card_x_left(width) == W - width

\* line 147
card_x_of(width) == (W - width) \div 2

card_y_top(height) == H - tagline_band - height

\* lines 150-151
card_y_of(height) == ((H - tagline_band) - height) \div 2

draw_lines_at_card_top(x, y, lns, lh) ==
  [i \in 1..Len(lns) |-> [x |-> x + card_padding_h, y |-> y + (i - 1) * lh]]

\* lines 193-206: the text area starts header_height below the card's top;
\* each line is drawn at text_x and one line_height below the line before
draw_lines(x, y, lns, lh) ==
  [i \in 1..Len(lns) |->
     [x |-> x + card_padding_h, y |-> y + header_height + (i - 1) * lh]]

InitPhrase ==
  /\ fontFiles \in {{}, PhraseFontNames}
  /\ fonts_cache = [g \in Generators |-> EmptyCache]
  /\ handles = 0
  /\ warnings = 0
  /\ callLog = << >>
  /\ pContent = NoFields
  /\ pFont \in PhraseFonts
  /\ card_width = card_width_init
  /\ lines = << >>
  /\ line_height = 0
  /\ card_height = 0
  /\ card_x = 0
  /\ card_y = 0
  /\ pPrev = NoRender
  /\ pImage = [width |-> 0, height |-> 0]
  /\ pDrawn = << >>
  /\ pPc = "ready"
  /\ IdleWrap
  /\ IdleFit
  /\ IdleGradient
  /\ IdlePhoto
  /\ IdleRest

\* PhraseGenerator.generate(content)
PhraseGenerate(content) ==
  /\ pPc \in {"ready", "rendered"}
  /\ LET phrase_text == get(content, "text", << >>)
         f1 == load_font(fonts_cache["phrase"], handles, fontFiles,
                         "Satoshi-Regular.otf", phrase_text_size)
         text_max_width == card_width - (card_padding_h * 2)
         new_lines == wrap_text(phrase_text, pFont, text_max_width)
         new_line_height == line_height_of(pFont)
         text_total_height == new_line_height * Len(new_lines)
         new_card_height == card_height_of(text_total_height)
         f2 == load_font(f1.cache, f1.n, fontFiles,
                         "Satoshi-Bold.otf", phrase_header_size)
         f3 == load_font(f2.cache, f2.n, fontFiles,
                         "LibreBaskerville-Italic.ttf", phrase_tagline_size)
     IN /\ pContent' = content
        /\ lines' = new_lines
        /\ line_height' = new_line_height
        /\ card_height' = new_card_height
        /\ card_x' = card_x_of(card_width)
        /\ card_y' = card_y_of(new_card_height)
        /\ fonts_cache' = [fonts_cache EXCEPT !["phrase"] = f3.cache]
        /\ handles' = f3.n
        /\ warnings' = warnings + f1.warned + f2.warned + f3.warned
  /\ pPrev' = IF pPc = "rendered"
                THEN [rendered |-> TRUE,
                      text |-> get(pContent, "text", << >>),
                      nlines |-> Len(lines),
                      card_height |-> card_height]
                ELSE NoRender
  \* lines 127-128 and 212: the canvas of create_gradient_background
  /\ pImage' = [width |-> W, height |-> H]
  /\ pDrawn' = draw_lines(card_x', card_y', lines', line_height')
  /\ pPc' = "rendered"
  /\ UNCHANGED <<pFont, card_width>>
  /\ UNCHANGED <<fontFiles, callLog, wrapVars, fitVars, gradVars,
                 photoVars, restVars>>

NextPhrase == \E content \in PhraseContents : PhraseGenerate(content)

SpecPhrase == InitPhrase /\ [][NextPhrase]_vars

----------------------------------------------------------------------------
(* Gradient engine: settings.hex_to_rgb, BaseGenerator.create_gradient,     *)
(* ChiffreGenerator._create_vertical_gradient                               *)

HexDigits ==
  <<"0", "1", "2", "3", "4", "5", "6", "7", "8", "9",
    "A", "B", "C", "D", "E", "F">>

\* int(c, 16) for one hexadecimal digit
HexVal(c) == (CHOOSE i \in 1..16 : HexDigits[i] = c) - 1

RECURSIVE lstrip_hash(_)
lstrip_hash(hex_color) ==
  IF hex_color # << >> /\ Head(hex_color) = "#"
    THEN lstrip_hash(Tail(hex_color)) ELSE hex_color

\* hex_to_rgb: lstrip("#"), then int(hex_color[i:i+2], 16) for i in (0, 2, 4)
hex_to_rgb(hex_color) ==
  LET h == lstrip_hash(hex_color)
  IN <<HexVal(h[1]) * 16 + HexVal(h[2]),
       HexVal(h[3]) * 16 + HexVal(h[4]),
       HexVal(h[5]) * 16 + HexVal(h[6])>>

\* colour strings of the palette and of generate_with_placeholder
GradientColors ==
  {<<"#", "8", "B", "8", "B", "8", "B">>,
   <<"#", "5", "A", "5", "A", "5", "A">>,
   <<"#", "E", "8", "7", "2", "5", "C">>,
   <<"#", "F", "4", "A", "9", "8", "B">>}

Directions == {"vertical", "horizontal"}

\* int(c1 + (c2 - c1) * i / n) for 0 <= i <= n: the value is not negative,
\* so int() is the floor.  The floating-point result equals this exact floor
\* for every colour of GradientColors and every n up to 5.
interpolate(c1, c2, i, n) == (c1 * n + (c2 - c1) * i) \div n

blend(rgb1, rgb2, i, n) ==
  <<interpolate(rgb1[1], rgb2[1], i, n),
    interpolate(rgb1[2], rgb2[2], i, n),
    interpolate(rgb1[3], rgb2[3], i, n)>>

\* base_generator.py lines 47-65: ratio = i / height (vertical) or i / width
create_gradient(width, height, color_start, color_end, direction) ==
  LET rgb1 == hex_to_rgb(color_start)
      rgb2 == hex_to_rgb(color_end)
  IN [px \in (0..(width - 1)) \X (0..(height - 1)) |->
        IF direction = "vertical"
          THEN blend(rgb1, rgb2, px[2], height)
          ELSE blend(rgb1, rgb2, px[1], width)]

Max(a, b) == IF a >= b THEN a ELSE b

\* chiffre_generator.py lines 153-162: ratio = i / max(height - 1, 1);
\* Image.fromarray puts gradient[i, j] at pixel (j, i)
create_vertical_gradient(width, height, rgb_start, rgb_end) ==
  [px \in (0..(width - 1)) \X (0..(height - 1)) |->
     blend(rgb_start, rgb_end, px[2], Max(height - 1, 1))]

GradientFns == {"create_gradient", "_create_vertical_gradient"}

InitGradient ==
  /\ gFn \in GradientFns
  /\ gWidth \in 1..MaxDim
  /\ gHeight \in 1..MaxDim
  /\ gStart \in GradientColors
  /\ gEnd \in GradientColors
  /\ gDirection \in IF gFn = "create_gradient" THEN Directions
                                                ELSE {"vertical"}
  /\ raster = << >>
  /\ gPc = "call"
  /\ IdleFont
  /\ IdleWrap
  /\ IdleFit
  /\ IdlePhrase
  /\ IdlePhoto
  /\ IdleRest

\* self.create_gradient(width, height, color_start, color_end, direction)
CreateGradientCall ==
  /\ gPc = "call"
  /\ gFn = "create_gradient"
  /\ raster' = create_gradient(gWidth, gHeight, gStart, gEnd, gDirection)
  /\ gPc' = "done"
  /\ UNCHANGED <<gFn, gWidth, gHeight, gStart, gEnd, gDirection>>
  /\ UNCHANGED <<fontVars, wrapVars, fitVars, phraseVars, photoVars, restVars>>

\* self._create_vertical_gradient(width, height, hex_to_rgb(..), hex_to_rgb(..))
CreateVerticalGradientCall ==
  /\ gPc = "call"
  /\ gFn = "_create_vertical_gradient"
  /\ raster' = create_vertical_gradient(gWidth, gHeight,
                                        hex_to_rgb(gStart), hex_to_rgb(gEnd))
  /\ gPc' = "done"
  /\ UNCHANGED <<gFn, gWidth, gHeight, gStart, gEnd, gDirection>>
  /\ UNCHANGED <<fontVars, wrapVars, fitVars, phraseVars, photoVars, restVars>>

NextGradient == CreateGradientCall \/ CreateVerticalGradientCall

SpecGradient == InitGradient /\ [][NextGradient]_vars

----------------------------------------------------------------------------
(* Photo card: PhotoGenerator.generate *)

PhotoFont == "LibreBaskerville-Regular.ttf"

Flags == {"absent", "true", "false"}

\* a content record from the presence of the three source fields and the
\* values of the three flags
PhotoContent(url, path, id, lo, af, ol) ==
  LET fields == (IF url THEN {"image_url"} ELSE {})
                \cup (IF path THEN {"image_path"} ELSE {})
                \cup (IF id THEN {"unsplash_photo_id"} ELSE {})
                \cup (IF lo # "absent" THEN {"light_overlay"} ELSE {})
                \cup (IF af # "absent" THEN {"apply_filter"} ELSE {})
                \cup (IF ol # "absent" THEN {"overlay_logo"} ELSE {})
  IN [k \in fields |->
        CASE k = "image_url" -> "https://example.org/photo.jpg"
          [] k = "image_path" -> "photo.jpg"
          [] k = "unsplash_photo_id" -> "abc"
          [] k = "light_overlay" -> (lo = "true")
          [] k = "apply_filter" -> (af = "true")
          [] k = "overlay_logo" -> (ol = "true")]

PhotoContents ==
  {PhotoContent(url, path, id, lo, af, ol) :
     url \in BOOLEAN, path \in BOOLEAN, id \in BOOLEAN,
     lo \in Flags, af \in Flags, ol \in Flags}

PhotoEnvs ==
  [unsplash : {"not_ready", "ready", "raises"},
   source_ok : BOOLEAN,
   logo : BOOLEAN]

effects_both(content) ==
  (IF get(content, "light_overlay", FALSE) THEN <<"light_overlay">> ELSE << >>)
    \o (IF get(content, "apply_filter", TRUE) THEN <<"warm_filter">> ELSE << >>)

\* lines 190-195: if content.get("light_overlay", False): apply_light_overlay
\* elif content.get("apply_filter", True): apply_warm_filter
effects(content) ==
  IF get(content, "light_overlay", FALSE) THEN <<"light_overlay">>
  ELSE IF get(content, "apply_filter", TRUE) THEN <<"warm_filter">>
  ELSE << >>

logo_steps_off(content, env) ==
  IF get(content, "overlay_logo", FALSE) /\ env.logo THEN <<"logo">> ELSE << >>

\* lines 198-200 and add_logo_overlay: the logo is pasted when overlay_logo is
\* true or absent and the logo file exists
logo_steps(content, env) ==
  IF get(content, "overlay_logo", TRUE) /\ env.logo THEN <<"logo">> ELSE << >>

unsplash_asked_always(content, env) ==
  /\ "unsplash_photo_id" \in DOMAIN content
  /\ env.unsplash # "not_ready"

\* lines 166-170: if unsplash_photo_id and not image_url, and
\* check_unsplash_availability()["ready"], trigger_download is called
unsplash_asked(content, env) ==
  /\ "unsplash_photo_id" \in DOMAIN content
  /\ "image_url" \notin DOMAIN content
  /\ env.unsplash # "not_ready"

\* lines 172-175: trigger_download returned the URL of the photo (an
\* exception raised by it is caught and image_url stays None)
unsplash_resolved(content, env) ==
  unsplash_asked(content, env) /\ env.unsplash = "ready"

\* lines 177-184: which source the raster is read from
source_step(content, env) ==
  IF "image_url" \in DOMAIN content \/ unsplash_resolved(content, env)
    THEN "load_image_from_url"
  ELSE IF "image_path" \in DOMAIN content THEN "load_image_from_path"
  ELSE "placeholder"

InitPhoto ==
  /\ fontFiles \in {{}, {PhotoFont}}
  /\ fonts_cache = [g \in Generators |-> EmptyCache]
  /\ handles = 0
  /\ warnings = 0
  /\ callLog = << >>
  /\ phEnv \in PhotoEnvs
  /\ phContent = NoFields
  /\ phSteps = << >>
  /\ phNet = 0
  /\ phStatus = "ready"
  /\ IdleWrap
  /\ IdleFit
  /\ IdlePhrase
  /\ IdleGradient
  /\ IdleRest

\* PhotoGenerator.generate(content)
PhotoGenerate(content) ==
  /\ phStatus \in {"ready", "ok", "error"}
  /\ LET \* lines 167-175: trigger_download asks Unsplash for the photo and
         \* then for its download location; an exception is caught
         ask == unsplash_asked(content, phEnv)
         resolved == unsplash_resolved(content, phEnv)
         unsplash_requests == IF ~ask THEN 0
                              ELSE IF resolved THEN 2 ELSE 1
         \* lines 177-184
         load_step == source_step(content, phEnv)
         use_url == load_step = "load_image_from_url"
         loaded == load_step = "placeholder" \/ phEnv.source_ok
         f == load_font(fonts_cache["photo"], handles, fontFiles,
                        PhotoFont, phrase_tagline_size)
     IN /\ phContent' = content
        /\ phNet' = unsplash_requests + (IF use_url THEN 1 ELSE 0)
        /\ IF loaded
             THEN /\ phSteps' = <<load_step, "resize_and_crop_to_fit">>
                                  \o effects(content)
                                  \o logo_steps(content, phEnv)
                                  \o <<"tagline">>
                  /\ phStatus' = "ok"
                  /\ fonts_cache' = [fonts_cache EXCEPT !["photo"] = f.cache]
                  /\ handles' = f.n
                  /\ warnings' = warnings + f.warned
             ELSE /\ phSteps' = << >>
                  /\ phStatus' = "error"
                  /\ UNCHANGED <<fonts_cache, handles, warnings>>
  /\ UNCHANGED phEnv
  /\ UNCHANGED <<fontFiles, callLog, wrapVars, fitVars, phraseVars,
                 gradVars, restVars>>

NextPhoto == \E content \in PhotoContents : PhotoGenerate(content)

SpecPhoto == InitPhoto /\ [][NextPhoto]_vars

----------------------------------------------------------------------------
(* Number card: ChiffreGenerator.generate, create_gradient_text,            *)
(* _draw_centered_multiline                                                 *)

TextFontName == "Satoshi-Regular.otf"

ChiffreFontNames == {TextFontName, NumberFont}

\* FONT_SIZES["chiffre"]
chiffre_context_size == 38

chiffre_unit_size == 36

chiffre_tagline_size == 32

\* a content record from its three optional fields
ChiffreContent(has_context, has_number, has_unit) ==
  LET fields == (IF has_context THEN {"context_text"} ELSE {})
                \cup (IF has_number THEN {"number"} ELSE {})
                \cup (IF has_unit THEN {"unit_text"} ELSE {})
  IN [k \in fields |->
        CASE k = "context_text" -> <<"a", " ", "a">>
          [] k = "number" -> "19"
          [] k = "unit_text" -> <<"a">>]

ChiffreContents ==
  {ChiffreContent(c, n, u) : c \in BOOLEAN, n \in BOOLEAN, u \in BOOLEAN}

\* glyph metrics of Satoshi-Regular.otf in hundredths of the font size:
\* advance widths and height of the bounding box of "Ay"
TextMetrics == {[a |-> 50, b |-> 50, sp |-> 25, ay |-> 70],
                [a |-> 2000, b |-> 2000, sp |-> 500, ay |-> 100]}

\* the same measures of the built-in fallback font, in pixels
DefaultTextFont == [a |-> 6, b |-> 6, sp |-> 6, ay |-> 11]

\* pixel metrics of the font object `font` of the Satoshi family
sized(font, tmetric) ==
  IF font.face = "default" THEN DefaultTextFont
  ELSE [a |-> (font.size * tmetric.a) \div 100,
        b |-> (font.size * tmetric.b) \div 100,
        sp |-> (font.size * tmetric.sp) \div 100,
        ay |-> (font.size * tmetric.ay) \div 100]

NoBest == [font |-> None, score |-> Inf, size |-> 0]

\* the one element of a singleton set; a value bound as `x \in {e}` is
\* computed once, where a LET definition is computed at each of its uses
The(S) == CHOOSE v \in S : TRUE

\* lines 58-81, the body of the fine scan once load_font returned r
fine_measure(s, r, metric, text, size) ==
  LET st2 == [cache |-> r.cache, n |-> r.n, warned |-> s.st.warned + r.warned]
      text_h == text_height(r.font, metric, text)
      text_w == text_width(r.font, metric, text)
      score == score_of(text_h, text_w)
  IN IF out_of_tolerance(text_h, text_w)
       THEN [st |-> st2, best |-> s.best, stop |-> s.best.font # None]
       ELSE [st |-> st2,
             best |-> IF s.best.score = Inf \/ score < s.best.score
                        THEN [font |-> r.font, score |-> score, size |-> size]
                        ELSE s.best,
             stop |-> FALSE]

\* lines 57-81, the body of the fine scan for one size: s holds the
\* generator's font state st (cache, objects created, warnings printed), the
\* locals best_font and best_score, and whether the loop was left by break
fine_body(s, files, metric, text, size) ==
  IF s.stop THEN s
  ELSE The({fine_measure(s, r, metric, text, size) :
              r \in {load_font(s.st.cache, s.st.n, files, NumberFont, size)}})

\* line 56: for size in range(min_size, max_size + 1, 5), here for the
\* sizes min_size + 5*i .. min_size + 5*j in increasing order (the range is
\* halved so that the evaluation stays shallow; `left` is the loop state
\* after the sizes of the first half)
RECURSIVE fine_range(_, _, _, _, _, _)
fine_range(s, files, metric, text, i, j) ==
  IF i > j THEN s
  ELSE IF i = j
    THEN fine_body(s, files, metric, text, min_size + fine_step * i)
  ELSE LET m == (i + j) \div 2
       IN The({fine_range(left, files, metric, text, m + 1, j) :
                 left \in {fine_range(s, files, metric, text, i, m)}})

fine_scan(st, files, metric, text) ==
  fine_range([st |-> st, best |-> NoBest, stop |-> FALSE],
             files, metric, text, 0, (max_size - min_size) \div fine_step)

\* lines 87-94, the body of the coarse scan once load_font returned r
coarse_measure(s, r, metric, text, size) ==
  LET st2 == [cache |-> r.cache, n |-> r.n, warned |-> s.st.warned + r.warned]
      text_h == text_height(r.font, metric, text)
      text_w == text_width(r.font, metric, text)
  IN IF text_h <= target_height /\ text_w <= target_width
       THEN [st |-> st2,
             best |-> [font |-> r.font, score |-> s.best.score, size |-> size],
             stop |-> FALSE]
       ELSE [st |-> st2, best |-> s.best, stop |-> TRUE]

\* lines 86-94, the body of the coarse scan for one size
coarse_body(s, files, metric, text, size) ==
  IF s.stop THEN s
  ELSE The({coarse_measure(s, r, metric, text, size) :
              r \in {load_font(s.st.cache, s.st.n, files, NumberFont, size)}})

\* line 85: for size in range(min_size, max_size + 1, 10)
RECURSIVE coarse_range(_, _, _, _, _, _)
coarse_range(s, files, metric, text, i, j) ==
  IF i > j THEN s
  ELSE IF i = j
    THEN coarse_body(s, files, metric, text, min_size + coarse_step * i)
  ELSE LET m == (i + j) \div 2
       IN The({coarse_range(left, files, metric, text, m + 1, j) :
                 left \in {coarse_range(s, files, metric, text, i, m)}})

coarse_scan(st, files, metric, text) ==
  coarse_range([st |-> st, best |-> NoBest, stop |-> FALSE],
               files, metric, text, 0, (max_size - min_size) \div coarse_step)

\* lines 84-94: the coarse scan runs only when the fine scan left
\* best_font at None
fit_fallback(f, files, metric, text) ==
  IF f.best.font = None THEN coarse_scan(f.st, files, metric, text) ELSE f

\* line 96: best_font, or load_font(font_name, 350) when it is None
fit_return(c, files, fellback) ==
  IF c.best.font # None
    THEN [st |-> c.st, font |-> returned_font(c.best.font, None),
          fallback |-> fellback]
    ELSE The({[st |-> [cache |-> d.cache, n |-> d.n,
                       warned |-> c.st.warned + d.warned],
               font |-> returned_font(c.best.font, d.font),
               fallback |-> TRUE] :
                d \in {load_font(c.st.cache, c.st.n, files, NumberFont,
                                 default_size)}})

\* _find_optimal_font_size(text, "LibreBaskerville-Regular.ttf", 0.60, 0.56)
\* as one call: the scans of FineProbe and CoarseProbe and the return of
\* FitReturn
find_optimal_font_size(st, files, metric, text) ==
  The({The({fit_return(c, files, f.best.font = None) :
              c \in {fit_fallback(f, files, metric, text)}}) :
         f \in {fine_scan(st, files, metric, text)}})

\* _draw_centered_multiline: the wrapped lines and the y after the last one
draw_centered_multiline(text, font, start_y, max_width) ==
  LET lns == wrap_text(text, font, max_width)
      lh == (font.ay * 13) \div 10
  IN [lines |-> lns, end_y |-> start_y + lh * Len(lns)]

padding == 20

\* temp_draw.textbbox((0, 0), text, font=font): the box of the text drawn
\* at the origin
textbbox(text, font, metric) ==
  LET left == IF Len(text) = 0 THEN 0
              ELSE IF font.face = "default" THEN DefaultGlyph.left
              ELSE (font.size * metric.left) \div 100
      top == IF Len(text) = 0 THEN 0
             ELSE IF font.face = "default" THEN DefaultGlyph.top
             ELSE (font.size * metric.top) \div 100
  IN [left |-> left, top |-> top,
      right |-> left + text_width(font, metric, text),
      bottom |-> top + text_height(font, metric, text)]

\* text_draw.text((x, y), text, font=font): the box the glyphs cover
draw_text(x, y, text, font, metric) ==
  LET bbox == textbbox(text, font, metric)
  IN [x0 |-> x + bbox.left, y0 |-> y + bbox.top,
      x1 |-> x + bbox.right, y1 |-> y + bbox.bottom]

\* what create_gradient_text builds from its measures: the mask text_img
\* with the glyphs drawn at (text_x, text_y), the gradient, and the result
gradient_text(text, font, metric, img_width, img_height, text_x, text_y) ==
  [width |-> img_width,
   height |-> img_height,
   mask |-> [width |-> img_width, height |-> img_height],
   gradient |-> [width |-> img_width, height |-> img_height],
   glyph |-> draw_text(text_x, text_y, text, font, metric)]

create_gradient_text_padded_once(text, font, metric) ==
  LET bbox == textbbox(text, font, metric)
  IN gradient_text(text, font, metric,
                   (bbox.right - bbox.left) + padding,
                   (bbox.bottom - bbox.top) + padding,
                   padding - bbox.left, padding - bbox.top)

create_gradient_text_unshifted(text, font, metric) ==
  LET bbox == textbbox(text, font, metric)
  IN gradient_text(text, font, metric,
                   (bbox.right - bbox.left) + padding * 2,
                   (bbox.bottom - bbox.top) + padding * 2,
                   padding, padding)

\* create_gradient_text lines 113-142
create_gradient_text(text, font, metric) ==
  LET bbox == textbbox(text, font, metric)
  IN gradient_text(text, font, metric,
                   (bbox.right - bbox.left) + padding * 2,
                   (bbox.bottom - bbox.top) + padding * 2,
                   padding - bbox.left, padding - bbox.top)

add_tagline_from_top(y_offset) == y_offset

\* add_tagline(draw, font, color, y_offset): the y the tagline is drawn at
add_tagline(y_offset) == H - y_offset

default_number_empty == ""

\* line 176: content.get("number", "0")
default_number == "0"

\* line 220
spacing == 50

\* lines 186-238 of generate: the layout, f1 being the load_font result for
\* font_context and fit the result of _find_optimal_font_size
chiffre_compose(f1, fit, files, metric, tmetric, content) ==
  LET context_text == get(content, "context_text", << >>)
      number == get(content, "number", default_number)
      unit_text == get(content, "unit_text", << >>)
      f3 == load_font(fit.st.cache, fit.st.n, files, TextFontName,
                      chiffre_unit_size)
      f4 == load_font(f3.cache, f3.n, files, NumberFont, chiffre_tagline_size)
      context_y == (H * 12) \div 100
      ctx == draw_centered_multiline(context_text, sized(f1.font, tmetric),
                                     context_y, (W * 85) \div 100)
      gradient_text_img == create_gradient_text(number, fit.font, metric)
      number_y == ctx.end_y + spacing
      number_x == (W - gradient_text_img.width) \div 2
      unit_y == number_y + gradient_text_img.height + spacing
      unit == draw_centered_multiline(unit_text, sized(f3.font, tmetric),
                                      unit_y, (W * 85) \div 100)
  IN [cache |-> f4.cache, n |-> f4.n,
      warned |-> fit.st.warned + f3.warned + f4.warned,
      layout |->
        [number |-> number,
         font_number |-> [face |-> fit.font.face, size |-> fit.font.size],
         fallback |-> fit.fallback,
         bbox |-> [width |-> text_width(fit.font, metric, number),
                   height |-> text_height(fit.font, metric, number)],
         context_lines |-> ctx.lines,
         context_y |-> context_y,
         context_end_y |-> ctx.end_y,
         raster |-> gradient_text_img,
         number_x |-> number_x,
         number_y |-> number_y,
         unit_y |-> unit_y,
         unit_lines |-> unit.lines,
         tagline_y |-> add_tagline(165),
         image |-> [width |-> W, height |-> H]]]

\* ChiffreGenerator.generate(content) on a generator whose font cache is
\* `cache`: the new font state and what was measured, placed and returned
chiffre_render(cache, n, files, metric, tmetric, content) ==
  The({The({chiffre_compose(f1, fit, files, metric, tmetric, content) :
              fit \in {find_optimal_font_size(
                         [cache |-> f1.cache, n |-> f1.n,
                          warned |-> f1.warned],
                         files, metric,
                         get(content, "number", default_number))}}) :
         f1 \in {load_font(cache, n, files, TextFontName,
                           chiffre_context_size)}})

InitChiffre ==
  /\ fontFiles \in {{}, ChiffreFontNames}
  /\ fonts_cache = [g \in Generators |-> EmptyCache]
  /\ handles = 0
  /\ warnings = 0
  /\ callLog = << >>
  /\ cContent = NoFields
  /\ cMetric \in Metrics
  /\ cTextMetric \in TextMetrics
  /\ cLayout = NoLayout
  /\ cWarm = "none"
  /\ cPc = "ready"
  /\ IdleWrap
  /\ IdleFit
  /\ IdlePhrase
  /\ IdleGradient
  /\ IdlePhoto
  /\ IdleSched
  /\ IdleExtra

\* ChiffreGenerator.generate(content)
ChiffreGenerate(content) ==
  /\ cPc \in {"ready", "rendered"}
  /\ \E r \in {chiffre_render(fonts_cache["chiffre"], handles, fontFiles,
                                cMetric, cTextMetric, content)} :
        /\ cLayout' = r.layout
        /\ fonts_cache' = [fonts_cache EXCEPT !["chiffre"] = r.cache]
        /\ handles' = r.n
        /\ warnings' = warnings + r.warned
  /\ cContent' = content
  /\ cWarm' = IF cPc = "rendered" THEN cLayout.number ELSE "none"
  /\ cPc' = "rendered"
  /\ UNCHANGED <<cMetric, cTextMetric>>
  /\ UNCHANGED <<fontFiles, callLog, wrapVars, fitVars, phraseVars, gradVars,
                 photoVars, schedVars, extraVars>>

NextChiffre == \E content \in ChiffreContents : ChiffreGenerate(content)

SpecChiffre == InitChiffre /\ [][NextChiffre]_vars

----------------------------------------------------------------------------
(* One process rendering Number and Quote cards *)

RenderPhraseContents == {NoFields, [text |-> <<"a">>]}

InitRender ==
  /\ fontFiles \in {{}, ChiffreFontNames \cup PhraseFontNames}
  /\ fonts_cache = [g \in Generators |-> EmptyCache]
  /\ handles = 0
  /\ warnings = 0
  /\ callLog = << >>
  /\ cContent = NoFields
  /\ cMetric \in Metrics
  /\ cTextMetric = [a |-> 2000, b |-> 2000, sp |-> 500, ay |-> 100]
  /\ cLayout = NoLayout
  /\ cWarm = "none"
  /\ cPc = "ready"
  /\ pContent = NoFields
  /\ pFont = [a |-> 300, b |-> 300, sp |-> 200, ay |-> 25]
  /\ card_width = card_width_init
  /\ lines = << >>
  /\ line_height = 0
  /\ card_height = 0
  /\ card_x = 0
  /\ card_y = 0
  /\ pPrev = NoRender
  /\ pImage = [width |-> 0, height |-> 0]
  /\ pDrawn = << >>
  /\ pPc = "ready"
  /\ IdleWrap
  /\ IdleFit
  /\ IdleGradient
  /\ IdlePhoto
  /\ IdleSched
  /\ IdleExtra

NextRender ==
  \/ \E content \in ChiffreContents : ChiffreGenerate(content)
  \/ \E content \in RenderPhraseContents : PhraseGenerate(content)

SpecRender == InitRender /\ [][NextRender]_vars

----------------------------------------------------------------------------
(* Content file and commands: main.py generate, scheduler.py               *)
(* generate-content and publish-next                                        *)

PostTypes == {"phrase", "chiffre", "photo"}

\* scheduler.py line 29
PUBLISH_ORDER == <<"phrase", "chiffre", "photo">>

\* scheduler.py get_next_id: prefix_map
prefix_of(post_type) ==
  IF post_type = "photo" THEN "ambiance_" ELSE post_type \o "_"

Indices(data) == 1..Len(data)

MaxOf(S) == CHOOSE m \in S : \A x \in S : x <= m

DigitChars == <<"0", "1", "2", "3", "4", "5", "6", "7", "8", "9">>

DigitVal(c) == (CHOOSE k \in 1..10 : DigitChars[k] = c) - 1

ValueError == -1

\* int(s) for a string of characters: its value when s is a non-empty
\* string of decimal digits, ValueError otherwise
RECURSIVE parse_int(_)
parse_int(chars) ==
  IF chars = << >> THEN ValueError
  ELSE IF \E i \in 1..Len(chars) : \A k \in 1..10 : DigitChars[k] # chars[i]
         THEN ValueError
  ELSE IF Len(chars) = 1 THEN DigitVal(chars[1])
  ELSE parse_int(SubSeq(chars, 1, Len(chars) - 1)) * 10
         + DigitVal(chars[Len(chars)])

\* str(n) for n >= 0
RECURSIVE digits(_)
digits(n) ==
  IF n < 10 THEN <<DigitChars[n + 1]>>
  ELSE Append(digits(n \div 10), DigitChars[(n % 10) + 1])

\* f"{n:03d}"
format_03d(n) ==
  LET d == digits(n)
  IN IF Len(d) >= 3 THEN d
     ELSE [i \in 1..(3 - Len(d)) |-> "0"] \o d

get_next_id_count(post_type, data) ==
  LET prefix == prefix_of(post_type)
      existing_ids == {i \in Indices(data) : data[i].id.prefix = prefix}
  IN [prefix |-> prefix, suffix |-> format_03d(Cardinality(existing_ids) + 1)]

\* scheduler.py get_next_id: an id is the prefix of its type followed by a
\* suffix; the new suffix is the number after the largest suffix that
\* parses as a number among the ids with that prefix
get_next_id(post_type, data) ==
  LET prefix == prefix_of(post_type)
      existing_ids == {i \in Indices(data) : data[i].id.prefix = prefix}
      numbers == {parse_int(data[i].id.suffix) :
                    i \in {j \in existing_ids :
                              parse_int(data[j].id.suffix) # ValueError}}
  IN [prefix |-> prefix,
      suffix |-> format_03d(IF numbers = {} THEN 1 ELSE MaxOf(numbers) + 1)]

\* scheduler.py get_posted_count
get_posted_count(data) ==
  Cardinality({i \in Indices(data) : data[i].status = "posted"})

\* scheduler.py get_next_post_type
get_next_post_type(data) == PUBLISH_ORDER[(get_posted_count(data) % 3) + 1]

select_post_or_any(data, next_type) ==
  LET typed == {i \in Indices(data) :
                  data[i].type = next_type /\ data[i].status = "ready"}
      ready == {i \in Indices(data) : data[i].status = "ready"}
  IN IF typed # {} THEN CHOOSE i \in typed : \A j \in typed : i <= j
     ELSE IF ready # {} THEN CHOOSE i \in ready : \A j \in ready : i <= j
     ELSE 0

\* publish_next lines 353-361: index of the first post of type next_type
\* with status "ready", 0 when there is none
select_post(data, next_type) ==
  LET typed == {i \in Indices(data) :
                  data[i].type = next_type /\ data[i].status = "ready"}
  IN IF typed = {} THEN 0 ELSE CHOOSE i \in typed : \A j \in typed : i <= j

\* status and generated_image of a post after a successful render
mark_ready(data, i) ==
  [data EXCEPT ![i].status = "ready", ![i].generated_image = TRUE]

\* generate_content lines 309-313: the first post of data with that id
mark_ready_by_id(data, id) ==
  LET same == {i \in Indices(data) : data[i].id = id}
  IN mark_ready(data, CHOOSE i \in same : \A j \in same : i <= j)

RECURSIVE render_batch_abort(_, _, _, _)
render_batch_abort(data, batch, raises, k) ==
  IF k > Len(batch) \/ batch[k] \in raises THEN data
  ELSE render_batch_abort(mark_ready(data, batch[k]), batch, raises, k + 1)

\* main.py generate lines 142-169: the loop over posts_to_generate from its
\* k-th post on; the render of the posts in `raises` raises
RECURSIVE render_batch(_, _, _, _)
render_batch(data, batch, raises, k) ==
  IF k > Len(batch) THEN data
  ELSE render_batch(IF batch[k] \in raises THEN data
                    ELSE mark_ready(data, batch[k]),
                    batch, raises, k + 1)

\* scheduler.py generate_content lines 289-318: the loop over
\* generated_posts, the posts of data from index i on
RECURSIVE image_loop(_, _, _)
image_loop(data, i, raises) ==
  IF i > Len(data) THEN data
  ELSE image_loop(IF i \in raises THEN data
                  ELSE mark_ready_by_id(data, data[i].id),
                  i + 1, raises)

\* generate_content lines 179-284: n posts of one type appended as drafts
RECURSIVE append_new(_, _, _)
append_new(data, post_type, n) ==
  IF n = 0 THEN data
  ELSE append_new(Append(data, [id |-> get_next_id(post_type, data),
                                type |-> post_type,
                                status |-> "draft",
                                generated_image |-> FALSE,
                                instagram_media_id |-> "none",
                                publish_order |-> 0]),
                  post_type, n - 1)

\* the indices of data in increasing order that satisfy the filters of
\* main.py generate (lines 121-127)
RECURSIVE filter_posts(_, _, _, _)
filter_posts(data, i, status, post_type) ==
  IF i > Len(data) THEN << >>
  ELSE (IF (status = "none" \/ data[i].status = status)
             /\ (post_type = "none" \/ data[i].type = post_type)
          THEN <<i>> ELSE << >>)
         \o filter_posts(data, i + 1, status, post_type)

\* a post of data/content.json
Post(prefix, suffix, post_type, status, image) ==
  [id |-> [prefix |-> prefix, suffix |-> suffix], type |-> post_type,
   status |-> status, generated_image |-> image,
   instagram_media_id |-> "none", publish_order |-> 0]

\* content files the generation commands start from: the empty file and
\* files whose ids were written by hand
ContentFiles ==
  {<< >>,
   <<Post("ambiance_", <<"x">>, "photo", "draft", FALSE)>>,
   <<Post("ambiance_", <<"0", "0", "2">>, "photo", "ready", TRUE)>>,
   <<Post("ambiance_", <<"7">>, "photo", "draft", FALSE),
     Post("ambiance_", <<"b", "i", "s">>, "photo", "ready", TRUE)>>}

\* content files the publication commands start from: posts waiting in the
\* queue, none published yet
QueueFiles ==
  {<<Post("phrase_", <<"0", "0", "1">>, "phrase", "ready", TRUE),
     Post("chiffre_", <<"0", "0", "1">>, "chiffre", "ready", TRUE),
     Post("ambiance_", <<"0", "0", "1">>, "photo", "ready", TRUE)>>,
   <<Post("phrase_", <<"0", "0", "1">>, "phrase", "draft", FALSE),
     Post("chiffre_", <<"0", "0", "1">>, "chiffre", "ready", TRUE)>>}

InitSched ==
  /\ posts \in ContentFiles
  /\ lastCmd = NoCommand
  /\ lastPubType = "none"
  /\ feed = EmptyBag
  /\ IdleFont
  /\ IdleWrap
  /\ IdleFit
  /\ IdlePhrase
  /\ IdleGradient
  /\ IdlePhoto
  /\ IdleChiffre
  /\ IdleExtra

SetOf(seq) == {seq[i] : i \in 1..Len(seq)}

\* main.py generate [--id ID] [--status S] [--type T] [--dry-run]; raises
\* is the set of posts whose render raises
MainGenerate(post_id, status, post_type, dry_run) ==
  /\ posts # << >>
  /\ post_id \in 0..Len(posts)
  /\ LET batch == IF post_id # 0 THEN <<post_id>>
                  ELSE filter_posts(posts, 1, status, post_type)
         rendered == batch # << >> /\ ~dry_run
     IN \E raises \in SUBSET (IF rendered THEN SetOf(batch) ELSE {}) :
          \* with --id the post comes from get_post_by_id, a second copy of
          \* the file: its new status is not in the data that is saved
          /\ posts' = IF rendered /\ post_id = 0
                        THEN render_batch(posts, batch, raises, 1)
                        ELSE posts
          /\ lastCmd' = [cmd |-> "main_generate",
                         before |-> posts,
                         batch |-> IF rendered THEN SetOf(batch) ELSE {},
                         raised |-> raises,
                         saves |-> IF rendered THEN 1 ELSE 0,
                         forced |-> FALSE, index |-> 0, prev |-> "none",
                         submitted |-> 0, feed |-> feed,
                         force_used |-> lastCmd.force_used]
  /\ lastPubType' = "none"
  /\ feed' = feed
  /\ UNCHANGED <<fontVars, wrapVars, fitVars, phraseVars, gradVars, photoVars,
                 chiffreVars, extraVars>>

\* scheduler.py generate-content --count COUNT [--dry-run]; created is the
\* number of posts of each type that Claude and Unsplash delivered, raises
\* the set of new posts whose render raises
GenerateContent(count, dry_run, claude_ready, unsplash_ready) ==
  /\ Len(posts) + count <= MaxPosts
  /\ LET phrases_count == count \div 3
         chiffres_count == count \div 3
         photos_count == count - phrases_count - chiffres_count
         runs == claude_ready /\ ~dry_run
     IN \E created \in [phrase : 0..(IF runs THEN phrases_count ELSE 0),
                        chiffre : 0..(IF runs THEN chiffres_count ELSE 0),
                        photo : 0..(IF runs /\ unsplash_ready
                                      THEN photos_count ELSE 0)] :
          LET d1 == append_new(posts, "phrase", created.phrase)
              d2 == append_new(d1, "chiffre", created.chiffre)
              d3 == append_new(d2, "photo", created.photo)
              new == (Len(posts) + 1)..Len(d3)
          IN \E raises \in SUBSET new :
               /\ posts' = image_loop(d3, Len(posts) + 1, raises)
               /\ lastCmd' = [cmd |-> "generate_content",
                              before |-> d3,
                              batch |-> new,
                              raised |-> raises,
                              saves |-> IF runs THEN 2 ELSE 0,
                              forced |-> FALSE, index |-> 0, prev |-> "none",
                              submitted |-> 0, feed |-> feed,
                              force_used |-> lastCmd.force_used]
  /\ lastPubType' = "none"
  /\ feed' = feed
  /\ UNCHANGED <<fontVars, wrapVars, fitVars, phraseVars, gradVars, photoVars,
                 chiffreVars, extraVars>>

\* scheduler.py publish-next [--dry-run] [--force-type T]; result is what
\* InstagramService.publish_image does
\* result["media_id"] of a published result: an identifier chosen by
\* Instagram, which the program stores and never reads
MediaId == "media_id"

PublishNext(force_type, dry_run, ig_ready, image_exists, result) ==
  /\ result = "published" => BagCardinality(feed) <= MaxPosts
  /\ LET next_type == IF force_type # "none" THEN force_type
                      ELSE get_next_post_type(posts)
         post_index == select_post(posts, next_type)
         submitted ==
           /\ ig_ready \/ dry_run
           /\ post_index # 0
           /\ posts[post_index].generated_image /\ image_exists
           /\ ~dry_run
         published == submitted /\ result = "published"
         media_id == MediaId
     IN /\ posts' = IF published
                      THEN [posts EXCEPT
                              ![post_index].status = "posted",
                              ![post_index].instagram_media_id = media_id,
                              ![post_index].publish_order =
                                 get_posted_count(posts) + 1]
                      ELSE posts
        /\ feed' = IF published
                     THEN feed (+) SetToBag({posts[post_index].id})
                     ELSE feed
        /\ lastCmd' = [cmd |-> "publish_next", before |-> posts, batch |-> {},
                    raised |-> {}, saves |-> IF published THEN 1 ELSE 0,
                    forced |-> force_type # "none",
                    index |-> IF published THEN post_index ELSE 0,
                    prev |-> lastPubType,
                    submitted |-> IF submitted THEN post_index ELSE 0,
                    feed |-> feed,
                    force_used |-> lastCmd.force_used]
        /\ lastPubType' = IF ~published THEN lastPubType
                          ELSE IF force_type # "none" THEN "none"
                          ELSE posts[post_index].type
  /\ UNCHANGED <<fontVars, wrapVars, fitVars, phraseVars, gradVars, photoVars,
                 chiffreVars, extraVars>>

\* main.py get_post_by_id: index of the first post with that id, 0 if none
get_post_by_id(data, id) ==
  LET same == {i \in Indices(data) : data[i].id = id}
  IN IF same = {} THEN 0 ELSE CHOOSE i \in same : \A j \in same : i <= j

\* main.py publish line 232: the post counts as published already
already_published(post, force) == post.status = "published" /\ ~force

\* main.py publish --id ID [--force]; post_id is the position of the post
\* named by --id, 0 when no post has that id; confirmed is the answer to
\* "Publier maintenant?"
MainPublish(post_id, force, ig_ready, image_exists, confirmed, result) ==
  /\ post_id \in 0..Len(posts)
  /\ result = "published" => BagCardinality(feed) <= MaxPosts
  /\ LET post_index == IF post_id = 0 THEN 0
                       ELSE get_post_by_id(posts, posts[post_id].id)
         submitted ==
           /\ ig_ready
           /\ post_index # 0
           /\ ~already_published(posts[post_index], force)
           /\ posts[post_index].generated_image /\ image_exists
           /\ confirmed
         published == submitted /\ result = "published"
         media_id == MediaId
     IN /\ posts' = IF published
                      THEN [posts EXCEPT
                              ![post_index].status = "published",
                              ![post_index].instagram_media_id = media_id]
                      ELSE posts
        /\ feed' = IF published
                     THEN feed (+) SetToBag({posts[post_index].id})
                     ELSE feed
        /\ lastCmd' = [cmd |-> "main_publish", before |-> posts, batch |-> {},
                       raised |-> {}, saves |-> IF published THEN 1 ELSE 0,
                       forced |-> force,
                       index |-> IF published THEN post_index ELSE 0,
                       prev |-> "none",
                       submitted |-> IF submitted THEN post_index ELSE 0,
                       feed |-> feed,
                       force_used |-> lastCmd.force_used \/ force]
        /\ lastPubType' = "none"
  /\ UNCHANGED <<fontVars, wrapVars, fitVars, phraseVars, gradVars, photoVars,
                 chiffreVars, extraVars>>

NextSched ==
  \/ \E post_id \in 0..MaxPosts, status \in {"none", "draft", "ready"},
        post_type \in {"none", "phrase"}, dry_run \in BOOLEAN :
       MainGenerate(post_id, status, post_type, dry_run)
  \/ \E count \in 1..3, dry_run \in BOOLEAN, claude_ready \in BOOLEAN,
        unsplash_ready \in BOOLEAN :
       GenerateContent(count, dry_run, claude_ready, unsplash_ready)

SpecSched == InitSched /\ [][NextSched]_vars

InitQueue ==
  /\ posts \in QueueFiles
  /\ lastCmd = NoCommand
  /\ lastPubType = "none"
  /\ feed = EmptyBag
  /\ IdleFont
  /\ IdleWrap
  /\ IdleFit
  /\ IdlePhrase
  /\ IdleGradient
  /\ IdlePhoto
  /\ IdleChiffre
  /\ IdleExtra

NextQueue ==
  \/ \E force_type \in {"none"} \cup PostTypes, dry_run \in BOOLEAN,
        ig_ready \in BOOLEAN, image_exists \in BOOLEAN,
        result \in {"published", "timeout", "raises"} :
       PublishNext(force_type, dry_run, ig_ready, image_exists, result)
  \/ \E post_id \in 0..MaxPosts, force \in BOOLEAN, ig_ready \in BOOLEAN,
        image_exists \in BOOLEAN, confirmed \in BOOLEAN,
        result \in {"published", "timeout", "raises"} :
       MainPublish(post_id, force, ig_ready, image_exists, confirmed, result)

SpecQueue == InitQueue /\ [][NextQueue]_vars

----------------------------------------------------------------------------
(* PhotoGenerator.resize_and_crop_to_fit (photo_generator.py)              *)
(*                                                                         *)
(* target_ratio is the double 1080 / 1350.  For every size below 2^50,     *)
(* img.width / img.height > target_ratio is 5 * width > 4 * height,        *)
(* int(img.height * target_ratio) is the floor of 4 * height / 5 and       *)
(* int(img.width / target_ratio) is the floor of 5 * width / 4, so the     *)
(* three are computed on integers here.                                    *)

SourceSides == (1..MaxSide) \cup {W, H, 4000}

wider_than_target(img) == img.width * H > img.height * W

crop_box(img) ==
  IF wider_than_target(img)
    THEN LET new_width == (img.height * W) \div H
             left == (img.width - new_width) \div 2
         IN [left |-> left, upper |-> 0,
             right |-> left + new_width, lower |-> img.height]
    ELSE LET new_height == (img.width * H) \div W
             top == (img.height - new_height) \div 2
         IN [left |-> 0, upper |-> top,
             right |-> img.width, lower |-> top + new_height]

\* Image.resize of the cropped image.  What Pillow does with an image that
\* has no pixels is not fixed by the code: the call raises or returns a
\* W x H image that shows nothing of the source.
resize(box, empty_resize) ==
  IF (box.right = box.left \/ box.lower = box.upper)
     /\ empty_resize = "raises"
    THEN [raised |-> TRUE, width |-> 0, height |-> 0]
    ELSE [raised |-> FALSE, width |-> W, height |-> H]

ResizeAndCropToFit(img, empty_resize) ==
  /\ srcImg' = img
  /\ cropBox' = crop_box(img)
  /\ resized' = resize(crop_box(img), empty_resize)
  /\ UNCHANGED <<fontVars, wrapVars, fitVars, phraseVars, gradVars, photoVars,
                 chiffreVars, schedVars, igVars>>

InitCrop ==
  /\ IdleFont
  /\ IdleWrap
  /\ IdleFit
  /\ IdlePhrase
  /\ IdleGradient
  /\ IdlePhoto
  /\ IdleRest

NextCrop ==
  \E img \in [width : SourceSides, height : SourceSides],
     empty_resize \in {"raises", "blank"} :
    ResizeAndCropToFit(img, empty_resize)

SpecCrop == InitCrop /\ [][NextCrop]_vars

----------------------------------------------------------------------------
(* InstagramService.publish_image (instagram_service.py)                   *)
(*                                                                         *)
(* One action per service method publish_image calls; igPc is the place    *)
(* the call has reached.  The answers of Cloudinary and of the Graph API,  *)
(* the writes to the debug log and the time a request takes are inputs.    *)

max_wait == 60

check_interval == 5

StatusCodes == {"IN_PROGRESS", "FINISHED", "ERROR", "EXPIRED"}

\* wait_for_container_ready, on one answer of check_container_status
poll_outcome_finished_or_error(status_code) ==
  IF status_code \in {"FINISHED", "ERROR"} THEN "ready" ELSE "sleep"

poll_outcome(status_code) ==
  IF status_code = "FINISHED" THEN "ready"
  ELSE IF status_code = "ERROR" THEN "raise"
  ELSE "sleep"

\* lines 241-262: the result dictionary, upload_to_cloudinary, the debug log
PublishImage(wait_for_ready, outcome) ==
  /\ igPc \in {"idle", "returned", "raised"}
  /\ igWait' = wait_for_ready
  /\ igElapsed' = 0
  /\ igStatus' = "None"
  /\ igTrace' = <<"upload_to_cloudinary">>
  /\ IF outcome = "ok"
       THEN /\ igResult' = [new_result EXCEPT !.image_url = "secure_url"]
            /\ igPc' = "create"
       ELSE /\ igResult' = new_result
            /\ igPc' = "raised"
  /\ UNCHANGED <<fontVars, wrapVars, fitVars, phraseVars, gradVars, photoVars,
                 chiffreVars, schedVars, cropVars>>

\* lines 264-273
CreateMediaContainer(outcome) ==
  /\ igPc = "create"
  /\ igTrace' = Append(igTrace, "create_media_container")
  /\ IF outcome = "ok"
       THEN /\ igResult' = [igResult EXCEPT !.container_id = "container_id"]
            /\ igPc' = IF igWait THEN "wait" ELSE "publish"
       ELSE /\ igResult' = igResult
            /\ igPc' = "raised"
  /\ UNCHANGED <<igWait, igElapsed, igStatus>>
  /\ UNCHANGED <<fontVars, wrapVars, fitVars, phraseVars, gradVars, photoVars,
                 chiffreVars, schedVars, cropVars>>

\* one turn of the loop of wait_for_container_ready, lines 210-220
CheckContainerStatus(answer, latency) ==
  /\ igPc = "wait"
  /\ igElapsed < max_wait
  /\ igTrace' = Append(igTrace, "check_container_status")
  /\ IF answer = "raises"
       THEN /\ igPc' = "raised"
            /\ UNCHANGED <<igStatus, igElapsed>>
       ELSE /\ igStatus' = answer
            /\ igPc' = CASE poll_outcome(answer) = "ready" -> "publish"
                          [] poll_outcome(answer) = "raise" -> "raised"
                          [] OTHER -> "wait"
            /\ igElapsed' = IF poll_outcome(answer) = "sleep"
                              THEN igElapsed + latency + check_interval
                              ELSE igElapsed
  /\ UNCHANGED <<igWait, igResult>>
  /\ UNCHANGED <<fontVars, wrapVars, fitVars, phraseVars, gradVars, photoVars,
                 chiffreVars, schedVars, cropVars>>

\* the loop ends after max_wait seconds: lines 222 and 274-276
WaitTimeout ==
  /\ igPc = "wait"
  /\ ~(igElapsed < max_wait)
  /\ igResult' = [igResult EXCEPT !.status = "timeout"]
  /\ igPc' = "returned"
  /\ UNCHANGED <<igWait, igElapsed, igTrace, igStatus>>
  /\ UNCHANGED <<fontVars, wrapVars, fitVars, phraseVars, gradVars, photoVars,
                 chiffreVars, schedVars, cropVars>>

\* lines 278-285
PublishMedia(outcome) ==
  /\ igPc = "publish"
  /\ igTrace' = Append(igTrace, "publish_media")
  /\ IF outcome = "ok"
       THEN /\ igResult' = [igResult EXCEPT !.media_id = "media_id",
                                              !.status = "published"]
            /\ igPc' = "returned"
       ELSE /\ igResult' = igResult
            /\ igPc' = "raised"
  /\ UNCHANGED <<igWait, igElapsed, igStatus>>
  /\ UNCHANGED <<fontVars, wrapVars, fitVars, phraseVars, gradVars, photoVars,
                 chiffreVars, schedVars, cropVars>>

InitIg ==
  /\ IdleFont
  /\ IdleWrap
  /\ IdleFit
  /\ IdlePhrase
  /\ IdleGradient
  /\ IdlePhoto
  /\ IdleRest

NextIg ==
  \/ \E wait_for_ready \in BOOLEAN, outcome \in {"ok", "raises"} :
       PublishImage(wait_for_ready, outcome)
  \/ \E outcome \in {"ok", "raises"} : CreateMediaContainer(outcome)
  \/ \E answer \in StatusCodes \cup {"raises"}, latency \in {0, MaxLatency} :
       CheckContainerStatus(answer, latency)
  \/ WaitTimeout
  \/ \E outcome \in {"ok", "raises"} : PublishMedia(outcome)

SpecIg == InitIg /\ [][NextIg]_vars

----------------------------------------------------------------------------
(* C2, C3 *)

IsSingleWord(line) ==
  line # << >> /\ \A i \in 1..Len(line) : line[i] \notin Whitespace

RECURSIVE WordsOfLines(_)
WordsOfLines(lns) ==
  IF lns = << >> THEN << >>
  ELSE split(Head(lns)) \o WordsOfLines(Tail(lns))

\* C2: no line returned by wrap_text is wider than max_width, except a line
\* that is one single word wider than max_width by itself; the words of the
\* lines are exactly the words of the text (no word is split across lines).
C2_WrapWidth ==
  wPc = "done" =>
    /\ \A i \in 1..Len(wLines) :
         \/ textwidth(wFont, wLines[i]) <= wMaxWidth
         \/ IsSingleWord(wLines[i])
    /\ WordsOfLines(wLines) = split(wText)

C2_Witness ==
  /\ wPc = "done"
  /\ Len(wLines) >= 2
  /\ \E i \in 1..Len(wLines) :
       IsSingleWord(wLines[i]) /\ textwidth(wFont, wLines[i]) > wMaxWidth
  /\ \E i \in 1..Len(wLines) :
       ~IsSingleWord(wLines[i]) /\ textwidth(wFont, wLines[i]) <= wMaxWidth

\* the text with every run of whitespace replaced by one space and the
\* whitespace at both ends removed
RECURSIVE CollapseFrom(_, _, _)
CollapseFrom(text, out, gap) ==
  IF text = << >> THEN out
  ELSE IF Head(text) \in Whitespace
         THEN CollapseFrom(Tail(text), out, out # << >>)
         ELSE CollapseFrom(Tail(text),
                           (IF gap THEN Append(out, " ") ELSE out)
                             \o <<Head(text)>>,
                           FALSE)

Collapse(text) == CollapseFrom(text, << >>, FALSE)

RECURSIVE JoinLines(_)
JoinLines(lns) ==
  IF lns = << >> THEN << >>
  ELSE IF Len(lns) = 1 THEN Head(lns)
  ELSE Head(lns) \o <<" ">> \o JoinLines(Tail(lns))

\* C3: the lines of wrap_text joined with single spaces are the text with
\* its whitespace collapsed; no line is empty, and an empty or
\* all-whitespace text yields no lines.
C3_WrapJoin ==
  wPc = "done" =>
    /\ JoinLines(wLines) = Collapse(wText)
    /\ \A i \in 1..Len(wLines) : wLines[i] # << >>
    /\ (\A i \in 1..Len(wText) : wText[i] \in Whitespace) => wLines = << >>

C3_Witness ==
  /\ wPc = "done"
  /\ Len(wLines) >= 2
  /\ JoinLines(wLines) # wText
  /\ JoinLines(wLines) = Collapse(wText)

----------------------------------------------------------------------------
(* C1 *)

SameRequest(a, b) ==
  a.g = b.g /\ a.font_name = b.font_name /\ a.size = b.size

\* C1: on one generator, two load_font calls with the same (font_name, size)
\* return the identical handle, the font is loaded only on the first call
\* for that key, and no call replaces or removes an entry of the cache.
C1_CachedHandle ==
  /\ [](\A i, j \in 1..Len(callLog) :
          (i < j /\ SameRequest(callLog[i], callLog[j]))
            => /\ callLog[j].font = callLog[i].font
               /\ ~callLog[j].loaded)
  /\ [][\A g \in Generators : \A k \in DOMAIN fonts_cache[g] :
          k \in DOMAIN fonts_cache'[g] /\ fonts_cache'[g][k] = fonts_cache[g][k]]_vars

C1_Witness ==
  \E i, j \in 1..Len(callLog) :
    /\ i < j
    /\ SameRequest(callLog[i], callLog[j])
    /\ callLog[i].loaded
    /\ callLog[j].font = fonts_cache[callLog[j].g]
                           [cache_key(callLog[j].font_name, callLog[j].size)]

----------------------------------------------------------------------------
(* C4, C5 *)

FineSizes == {n \in min_size..max_size : (n - min_size) % fine_step = 0}

CoarseSizes == {n \in min_size..max_size : (n - min_size) % coarse_step = 0}

WithinFivePercent(font) ==
  /\ Abs(text_height(font, fMetric, fText) - target_height) * 20
       <= target_height
  /\ Abs(text_width(font, fMetric, fText) - target_width) * 20
       <= target_width

\* C4: the font returned by _find_optimal_font_size either measures within
\* 5% of the target height and of the target width, or it was chosen by a
\* fallback path (coarse scan or default size) and its size is at most 1000.
C4_FitOrFallback ==
  fPc = "done" =>
    \/ WithinFivePercent(fResult)
    \/ fallback /\ best_size <= max_size

C4_Witness ==
  /\ fPc = "done"
  /\ ~fallback
  /\ WithinFivePercent(fResult)
  /\ fResult.size = best_size

C4_WitnessFallback ==
  /\ fPc = "done"
  /\ fallback
  /\ ~WithinFivePercent(fResult)

\* C5: for every input string the search terminates, returns a font that is
\* not None, and measures at most 191 + 96 sizes.
C5_Terminates ==
  /\ <>(fPc = "done")
  /\ [](probes <= Cardinality(FineSizes) + Cardinality(CoarseSizes))
  /\ [](Cardinality(FineSizes) = 191 /\ Cardinality(CoarseSizes) = 96)
  /\ [](fPc = "done" => fResult # None)

C5_Witness ==
  /\ fPc = "done"
  /\ fText = "1000000"
  /\ probes = 191 + 1
  /\ fResult # None
  /\ best_size = default_size

C5_WitnessEmpty ==
  /\ fPc = "done"
  /\ fText = ""
  /\ probes = 191 + 96
  /\ fResult # None

----------------------------------------------------------------------------
(* C6, C7, C8 *)

\* C6: card.height = 80 + line_height * (number of wrapped lines) + 40 + 30
\* and card.y = floor((available_height - card.height) / 2) with
\* available_height = H - 150.
C6_CardRect ==
  pPc = "rendered" =>
    /\ lines = wrap_text(get(pContent, "text", << >>), pFont, card_width - 80)
    /\ card_height = 80 + line_height * Len(lines) + 40 + 30
    /\ 2 * card_y <= (H - 150) - card_height
    /\ (H - 150) - card_height < 2 * card_y + 2

C6_Witness ==
  /\ pPc = "rendered"
  /\ Len(lines) >= 1
  /\ card_height > H - 150
  /\ card_y < 0
  /\ 2 * card_y # (H - 150) - card_height

C6_WitnessTwoLines ==
  /\ pPc = "rendered"
  /\ Len(lines) = 2
  /\ card_height = 150 + 2 * line_height
  /\ card_y > 0

IsPrefix(s, t) == Len(s) <= Len(t) /\ SubSeq(t, 1, Len(s)) = s

\* C7: when the body text is extended and wraps to at least as many lines,
\* card.height does not decrease; card.height is at least 80 + 40 + 30 = 150
\* for every text, the empty text included.
C7_CardMonotone ==
  pPc = "rendered" =>
    /\ card_height >= 150
    /\ (/\ pPrev.rendered
        /\ IsPrefix(pPrev.text, get(pContent, "text", << >>))
        /\ Len(lines) >= pPrev.nlines)
         => card_height >= pPrev.card_height

C7_Witness ==
  /\ pPc = "rendered"
  /\ pPrev.rendered
  /\ pPrev.text # get(pContent, "text", << >>)
  /\ IsPrefix(pPrev.text, get(pContent, "text", << >>))
  /\ Len(lines) > pPrev.nlines
  /\ card_height > pPrev.card_height
  /\ pPrev.card_height > 150

C7_WitnessEmpty ==
  /\ pPc = "rendered"
  /\ get(pContent, "text", << >>) = << >>
  /\ card_height = 150

\* C8: the quote card is horizontally centred within 1 pixel, and its width
\* is 0.80 * W whatever the text.
C8_CardCentred ==
  pPc = "rendered" =>
    /\ 2 * card_x + card_width - W <= 2
    /\ W - (2 * card_x + card_width) <= 2
    /\ card_width * 100 = 80 * W

C8_Witness ==
  /\ pPc = "rendered"
  /\ pPrev.rendered
  /\ pPrev.nlines # Len(lines)
  /\ card_x = 108
  /\ card_width = 864

----------------------------------------------------------------------------
(* C9, C10 *)

Near(rgb1, rgb2) == \A c \in 1..3 : Abs(rgb1[c] - rgb2[c]) <= 1

\* C9: for every width and height >= 1 and every pair of colours, pixel
\* [0,0] of the gradient equals color_start and the terminal row (vertical)
\* or terminal column (horizontal) equals color_end within 1 per channel.
C9_GradientEnds ==
  gPc = "done" =>
    /\ raster[<<0, 0>>] = hex_to_rgb(gStart)
    /\ IF gDirection = "vertical"
         THEN \A x \in 0..(gWidth - 1) :
                Near(raster[<<x, gHeight - 1>>], hex_to_rgb(gEnd))
         ELSE \A y \in 0..(gHeight - 1) :
                Near(raster[<<gWidth - 1, y>>], hex_to_rgb(gEnd))

\* the same statement for rasters of at least two rows (vertical) or two
\* columns (horizontal), where pixel [0,0] is not in the terminal row/column
C9_GradientEndsFromTwo ==
  (IF gDirection = "vertical" THEN gHeight ELSE gWidth) >= 2
    => C9_GradientEnds

\* what the two functions do: create_gradient stops one step short of
\* color_end, _create_vertical_gradient reaches it when height >= 2
C9_TerminalValues ==
  gPc = "done" =>
    LET n == IF gDirection = "vertical" THEN gHeight ELSE gWidth
        last == IF gDirection = "vertical" THEN <<0, gHeight - 1>>
                                           ELSE <<gWidth - 1, 0>>
    IN /\ raster[<<0, 0>>] = hex_to_rgb(gStart)
       /\ gFn = "create_gradient" =>
            raster[last] = blend(hex_to_rgb(gStart), hex_to_rgb(gEnd), n - 1, n)
       /\ (gFn = "_create_vertical_gradient" /\ n >= 2) =>
            raster[last] = hex_to_rgb(gEnd)

Count(seq, e) == Cardinality({i \in 1..Len(seq) : seq[i] = e})

C10_WitnessWarm ==
  /\ phStatus = "ok"
  /\ "light_overlay" \notin DOMAIN phContent
  /\ "apply_filter" \notin DOMAIN phContent
  /\ Count(phSteps, "warm_filter") = 1

----------------------------------------------------------------------------
(* C11, C12, C13 *)

PhotoDone == phStatus \in {"ok", "error"}

ExpectedRequests(content, env) ==
  IF "image_url" \in DOMAIN content THEN 1
  ELSE IF "unsplash_photo_id" \notin DOMAIN content THEN 0
  ELSE IF env.unsplash = "ready" THEN 3
  ELSE IF env.unsplash = "raises" THEN 1
  ELSE 0

C11_WitnessLocal ==
  /\ phStatus = "ok"
  /\ DOMAIN phContent = {"image_path"}
  /\ phSteps[1] = "load_image_from_path"
  /\ phNet = 0

OmitsLogoAndFilter ==
  /\ phStatus = "ok"
  /\ "overlay_logo" \notin DOMAIN phContent
  /\ "apply_filter" \notin DOMAIN phContent

LightOverlayOn ==
  "light_overlay" \in DOMAIN phContent /\ phContent["light_overlay"]

SourceUnusable ==
  /\ DOMAIN phContent
       \cap {"image_url", "image_path", "unsplash_photo_id"} # {}
  /\ \/ source_step(phContent, phEnv) = "placeholder"
     \/ ~phEnv.source_ok

\* C13: whenever the source raster of a render is malformed or unreachable,
\* generate ends in an error instead of returning an image, and the font
\* cache is the same after the call as before it.
C13_SourceFailureIsError ==
  [][(PhotoDone' /\ SourceUnusable')
       => (phStatus' = "error" /\ fonts_cache' = fonts_cache)]_vars

\* the case of C13 that fails: the Unsplash photo of the record could not be
\* resolved and generate returned the grey placeholder card
C13_PlaceholderReturned ==
  /\ phStatus = "ok"
  /\ DOMAIN phContent \cap {"image_url", "image_path", "unsplash_photo_id"}
       = {"unsplash_photo_id"}
  /\ phEnv.unsplash = "raises"
  /\ phSteps[1] = "placeholder"

\* what holds: a failing load_image_from_url / load_image_from_path ends the
\* call in an error before any font is requested
C13_LoadFailureKeepsCache ==
  [][(PhotoDone' /\ source_step(phContent', phEnv') # "placeholder"
        /\ ~phEnv'.source_ok)
       => (phStatus' = "error" /\ fonts_cache' = fonts_cache)]_vars

----------------------------------------------------------------------------
(* C15 *)

SameKey(a, b) ==
  a.g = b.g /\ cache_key(a.font_name, a.size) = cache_key(b.font_name, b.size)

FirstForKey(i) == \A j \in 1..(i - 1) : ~SameKey(callLog[j], callLog[i])

\* C15: a load_font call for a font file that does not exist returns the
\* built-in fallback font and stores it under the requested key; the first
\* such call for a key prints one warning, every later call for that key
\* returns the same fallback handle and prints none.
C15_FallbackCached ==
  /\ \A i \in 1..Len(callLog) :
       callLog[i].font_name \notin fontFiles =>
         LET c == callLog[i]
             key == cache_key(c.font_name, c.size)
         IN /\ c.font.face = "default"
            /\ key \in DOMAIN fonts_cache[c.g]
            /\ fonts_cache[c.g][key] = c.font
            /\ c.warned = (IF FirstForKey(i) THEN 1 ELSE 0)
            /\ \A j \in 1..(i - 1) :
                 SameKey(callLog[j], c) => callLog[j].font = c.font
  /\ warnings = Cardinality({i \in 1..Len(callLog) :
                               /\ callLog[i].font_name \notin fontFiles
                               /\ FirstForKey(i)})

C15_Witness ==
  \E i, j \in 1..Len(callLog) :
    /\ i < j
    /\ SameKey(callLog[i], callLog[j])
    /\ callLog[i].font_name \notin fontFiles
    /\ callLog[i].warned = 1
    /\ callLog[j].warned = 0
    /\ callLog[j].font = callLog[i].font
    /\ callLog[j].font.face = "default"
    /\ warnings = 1

----------------------------------------------------------------------------
(* C19 *)

SameFontKey(a, b) == a.font_name = b.font_name /\ a.size = b.size

\* C19: once an entry was created for a (family, size), every later request
\* for the same (family, size) in the process, from any composer, returns
\* that same entry and does not load the font again.
C19_ProcessWideEntry ==
  \A i, j \in 1..Len(callLog) :
    (i < j /\ SameFontKey(callLog[i], callLog[j]))
      => /\ callLog[j].font = callLog[i].font
         /\ ~callLog[j].loaded

\* the case of C19 that fails: a second composer requests a (family, size)
\* that another composer already holds and loads the font file again
C19_LoadedTwice ==
  \E i, j \in 1..Len(callLog) :
    /\ i < j
    /\ SameFontKey(callLog[i], callLog[j])
    /\ callLog[i].g # callLog[j].g
    /\ callLog[i].loaded
    /\ callLog[j].loaded
    /\ callLog[j].font # callLog[i].font

----------------------------------------------------------------------------
(* C14, C17, C18 *)

\* the step actions of the fit search and find_optimal_font_size compute the
\* same font, the same cache and the same use of the coarse scan
FitAgreement ==
  fPc = "done" =>
    \E r \in {find_optimal_font_size(
                 [cache |-> EmptyCache, n |-> 0, warned |-> 0],
                 fontFiles, fMetric, fText)} :
      /\ r.font = fResult
      /\ r.st.cache = fonts_cache["chiffre"]
      /\ r.st.n = handles
      /\ r.st.warned = warnings
      /\ r.fallback = fallback

Canvas == [width |-> W, height |-> H]

\* C14: whichever of context_text, number, unit_text (Number) or text
\* (Quote) the content record lacks, generate returns an image of W x H; an
\* absent text field is laid out as the empty string (no line at all) and an
\* absent number is rendered as "0".
C14_AbsentFields ==
  /\ cPc = "rendered" =>
       /\ cLayout.image = Canvas
       /\ "context_text" \notin DOMAIN cContent => cLayout.context_lines = << >>
       /\ "unit_text" \notin DOMAIN cContent => cLayout.unit_lines = << >>
       /\ "number" \notin DOMAIN cContent => cLayout.number = "0"
       /\ "number" \in DOMAIN cContent => cLayout.number = cContent["number"]
       /\ cLayout.raster.width = cLayout.bbox.width + 40
  /\ pPc = "rendered" =>
       /\ pImage = Canvas
       /\ "text" \notin DOMAIN pContent =>
            /\ lines = << >>
            /\ card_height = header_height + text_area_padding + card_padding_v

C14_Witness ==
  /\ cPc = "rendered"
  /\ cContent = NoFields
  /\ cLayout.number = "0"
  /\ cLayout.image = Canvas
  /\ pPc = "rendered"
  /\ pContent = NoFields
  /\ pImage = Canvas

\* C17: the layout and output of a render of the Number card are those of a
\* render of the same record by a generator with an empty font cache, and a
\* Quote card rendered twice in a row has the same lines and card height.
C17_CacheIndependent ==
  /\ cPc = "rendered" =>
       cLayout = chiffre_render(EmptyCache, 0, fontFiles, cMetric,
                                cTextMetric, cContent).layout
  /\ (pPc = "rendered" /\ pPrev.rendered
        /\ pPrev.text = get(pContent, "text", << >>)) =>
       /\ pPrev.nlines = Len(lines)
       /\ pPrev.card_height = card_height

\* a Number card rendered with a cache warmed by the render of another number
C17_Witness ==
  /\ cPc = "rendered"
  /\ cWarm \notin {"none", cLayout.number}
  /\ fontFiles # {}
  /\ cache_key(NumberFont, cLayout.font_number.size)
       \in DOMAIN fonts_cache["chiffre"]
  /\ ~cLayout.fallback

C17_WitnessQuote ==
  /\ pPc = "rendered"
  /\ pPrev.rendered
  /\ pPrev.text = <<"a">>
  /\ get(pContent, "text", << >>) = <<"a">>
  /\ Len(lines) = 1

NumeralFitted ==
  /\ cPc = "rendered"
  /\ cLayout.number = "19"
  /\ ~out_of_tolerance(cLayout.bbox.height, cLayout.bbox.width)

\* C18 as stated: for the number "19" whose fitted bounding box is within the
\* 5% tolerance, the height of the raster returned by create_gradient_text
\* is within 5% of 810.
C18_RasterHeight ==
  NumeralFitted =>
    Abs(cLayout.raster.height - target_height) * 100 <= 5 * target_height

\* C18 (amended): that raster is the bounding box of the numeral plus 20
\* pixels of padding on each side, so its height is the fitted height plus
\* 40, between 810 and 890.
C18_RasterHeightPadded ==
  NumeralFitted =>
    /\ cLayout.raster.height = cLayout.bbox.height + 40
    /\ Abs(cLayout.raster.height - 40 - target_height) * 100
         <= 5 * target_height
    /\ cLayout.raster.height >= 810
    /\ cLayout.raster.height <= 890

C18_Witness ==
  /\ NumeralFitted
  /\ cLayout.bbox.height = 815
  /\ cLayout.raster.height = 855

----------------------------------------------------------------------------
(* C16, C20 *)

\* C16: in a run of main.py generate or of the image loop of
\* generate-content in which the render of some post raises, every other post
\* of the batch is marked ready with its generated image, every post whose
\* render raised keeps its status and generated_image, no other post
\* changes, and the content file is saved.
C16_BatchIsolation ==
  (lastCmd.cmd \in {"main_generate", "generate_content"}
     /\ lastCmd.raised # {}) =>
    /\ Len(posts) = Len(lastCmd.before)
    /\ \A i \in lastCmd.batch \ lastCmd.raised :
         posts[i].status = "ready" /\ posts[i].generated_image
    /\ \A i \in lastCmd.raised :
         /\ posts[i].status = lastCmd.before[i].status
         /\ posts[i].generated_image = lastCmd.before[i].generated_image
    /\ \A i \in Indices(posts) \ lastCmd.batch : posts[i] = lastCmd.before[i]
    /\ lastCmd.saves >= 1

C16_Witness ==
  /\ lastCmd.cmd = "generate_content"
  /\ lastCmd.raised = {2}
  /\ lastCmd.batch = {1, 2, 3}
  /\ posts[1].status = "ready"
  /\ posts[2].status = "draft"
  /\ posts[3].status = "ready"
  /\ lastCmd.saves = 2

C16_WitnessMain ==
  /\ lastCmd.cmd = "main_generate"
  /\ lastCmd.raised = {1}
  /\ lastCmd.batch = {1, 2}
  /\ lastCmd.before[2].status = "draft"
  /\ posts[1].status = "draft"
  /\ posts[2].status = "ready"

NextInOrder(post_type) ==
  CASE post_type = "phrase" -> "chiffre"
    [] post_type = "chiffre" -> "photo"
    [] post_type = "photo" -> "phrase"

C20_WitnessNothing ==
  /\ lastCmd.cmd = "publish_next"
  /\ ~lastCmd.forced
  /\ lastCmd.index = 0
  /\ \E j \in Indices(posts) :
       posts[j].status = "ready" /\ posts[j].generated_image
  /\ \A j \in Indices(posts) :
       posts[j].type = get_next_post_type(posts) => posts[j].status # "ready"

----------------------------------------------------------------------------
(* C22, C23 *)

\* the font object load_font hands out for NumberFont at a size, as far as
\* measurement is concerned
ProbeFont(size) ==
  IF NumberFont \in fontFiles THEN truetype(0, NumberFont, size)
  ELSE load_default(0)

FitsAt(size) ==
  /\ text_height(ProbeFont(size), fMetric, fText) <= target_height
  /\ text_width(ProbeFont(size), fMetric, fText) <= target_width

AcceptableAt(size) == WithinFivePercent(ProbeFont(size))

\* height_diff + width_diff at a size, times target_height * target_width
ScoreAt(size) ==
  Abs(text_height(ProbeFont(size), fMetric, fText) - target_height)
      * target_width
    + Abs(text_width(ProbeFont(size), fMetric, fText) - target_width)
      * target_height

MinOf(S) == CHOOSE m \in S : \A x \in S : m <= x

\* C22: when no size of the fine scan is within 5% on both axes, the search
\* returns the font of the largest coarse size (50, 60, ..., 1000) whose
\* bounding box fits within both targets, and the font of size 350 exactly
\* when no coarse size fits.
C22_CoarseLargestFit ==
  (fPc = "done" /\ \A s \in FineSizes : ~AcceptableAt(s)) =>
    LET fitting == {s \in CoarseSizes : FitsAt(s)}
    IN /\ fallback
       /\ fitting # {} =>
            /\ best_size = MaxOf(fitting)
            /\ fResult = best_font
            /\ fResult.face = ProbeFont(best_size).face
            /\ fResult.size = ProbeFont(best_size).size
       /\ fitting = {} <=> best_size = default_size
       /\ fitting = {} =>
            /\ best_font = None
            /\ fResult.face = ProbeFont(default_size).face
            /\ fResult.size = ProbeFont(default_size).size

\* the coarse scan picks a size below the largest one that fits the height
C22_Witness ==
  /\ fPc = "done"
  /\ fallback
  /\ fText = "999"
  /\ fResult.face = NumberFont
  /\ fResult.size = 540
  /\ text_height(truetype(0, NumberFont, 550), fMetric, fText)
       <= target_height

C22_WitnessDefault ==
  /\ fPc = "done"
  /\ fallback
  /\ \A s \in CoarseSizes : ~FitsAt(s)
  /\ fResult.face = NumberFont
  /\ fResult.size = default_size

\* C23: when some size of the fine scan is within 5% on both axes, the
\* search returns the size of minimum summed deviation among the acceptable
\* sizes below the first unacceptable size that follows an acceptable one,
\* and no size above that one is probed.
C23_FineMinimum ==
  (fPc = "done" /\ \E s \in FineSizes : AcceptableAt(s)) =>
    LET first == MinOf({s \in FineSizes : AcceptableAt(s)})
        after == {s \in FineSizes : s > first /\ ~AcceptableAt(s)}
        stop == IF after = {} THEN max_size + fine_step ELSE MinOf(after)
        seen == {s \in FineSizes : s < stop /\ AcceptableAt(s)}
    IN /\ ~fallback
       /\ best_size \in seen
       /\ \A s \in seen : ScoreAt(best_size) <= ScoreAt(s)
       /\ fResult = truetype(fResult.id, NumberFont, best_size)
       /\ probes = Cardinality({s \in FineSizes : s <= stop})

\* the scan is abandoned at 855, after the acceptable sizes 780 .. 850, and
\* 815 is returned
C23_Witness ==
  /\ fPc = "done"
  /\ ~fallback
  /\ fText = "19"
  /\ fResult.size = 815
  /\ AcceptableAt(850)
  /\ ~AcceptableAt(855)
  /\ probes = Cardinality({s \in FineSizes : s <= 855})
  /\ probes < Cardinality(FineSizes)

----------------------------------------------------------------------------
(* C25 *)

\* C25: the raster returned by create_gradient_text measures (bbox width +
\* 40) x (bbox height + 40); the glyph box lies at [20, 20 + width) x
\* [20, 20 + height) of it whatever the offset of the measured bounding
\* box; the mask and the gradient have the same dimensions.
C25_GlyphRegistered ==
  cPc = "rendered" =>
    LET r == cLayout.raster
        b == cLayout.bbox
    IN /\ r.width = b.width + 40
       /\ r.height = b.height + 40
       /\ r.glyph = [x0 |-> 20, y0 |-> 20,
                     x1 |-> 20 + b.width, y1 |-> 20 + b.height]
       /\ r.glyph.x0 >= 0 /\ r.glyph.y0 >= 0
       /\ r.glyph.x1 <= r.width - 20 /\ r.glyph.y1 <= r.height - 20
       /\ r.mask = r.gradient
       /\ r.mask = [width |-> r.width, height |-> r.height]

\* a numeral whose measured bounding box starts left of and below the origin
C25_Witness ==
  /\ cPc = "rendered"
  /\ cLayout.number = "19"
  /\ cLayout.font_number.face = NumberFont
  /\ textbbox(cLayout.number,
              truetype(0, NumberFont, cLayout.font_number.size),
              cMetric).left < 0
  /\ textbbox(cLayout.number,
              truetype(0, NumberFont, cLayout.font_number.size),
              cMetric).top > 0
  /\ cLayout.raster.glyph.x0 = 20
  /\ cLayout.raster.glyph.y0 = 20

----------------------------------------------------------------------------
(* C26 *)

\* C26: in every Number card the context text starts at y = int(0.12 * H),
\* the numeral raster's top is the end of the context block plus 50, the
\* unit text's top is the raster's bottom plus 50 and the tagline is drawn
\* at H - 165; so context start <= context end < numeral top < unit top,
\* and with an empty context text the numeral top is int(0.12 * H) + 50.
C26_StackedBlocks ==
  cPc = "rendered" =>
    /\ cLayout.context_y = 162
    /\ cLayout.context_end_y >= cLayout.context_y
    /\ (cLayout.context_lines # << >>
          => cLayout.context_end_y
               = 162 + Len(cLayout.context_lines)
                         * ((cLayout.context_end_y - 162)
                              \div Len(cLayout.context_lines)))
    /\ cLayout.number_y = cLayout.context_end_y + 50
    /\ cLayout.unit_y = cLayout.number_y + cLayout.raster.height + 50
    /\ cLayout.tagline_y = 1350 - 165
    /\ cLayout.context_y <= cLayout.context_end_y
    /\ cLayout.context_end_y < cLayout.number_y
    /\ cLayout.number_y < cLayout.unit_y
    /\ (get(cContent, "context_text", << >>) = << >>
          => cLayout.number_y = 162 + 50)

\* a card whose context text takes two lines
C26_Witness ==
  /\ cPc = "rendered"
  /\ Len(cLayout.context_lines) = 2
  /\ cLayout.context_end_y > cLayout.context_y
  /\ cLayout.number_y = cLayout.context_end_y + 50
  /\ cLayout.unit_lines # << >>

C26_WitnessEmpty ==
  /\ cPc = "rendered"
  /\ get(cContent, "context_text", << >>) = << >>
  /\ cLayout.number_y = 212

----------------------------------------------------------------------------
(* C27 *)

----------------------------------------------------------------------------
(* C21, C29, C30 *)

\* C21: in a sequence of main.py publish commands without --force and of
\* publish-next commands, no command submits to Instagram a post that was
\* published before.
C21_NoResubmission ==
  (lastCmd.cmd \in {"publish_next", "main_publish"}
     /\ ~lastCmd.force_used
     /\ lastCmd.submitted # 0) =>
    CopiesIn(lastCmd.before[lastCmd.submitted].id, lastCmd.feed) = 0

\* what the code does keep: publish-next never submits a post that was
\* published before, and main.py publish without --force never submits a
\* post whose status is "published"
C21_OwnStatusGuards ==
  /\ (lastCmd.cmd = "publish_next" /\ lastCmd.submitted # 0) =>
       /\ lastCmd.before[lastCmd.submitted].status = "ready"
       /\ CopiesIn(lastCmd.before[lastCmd.submitted].id, lastCmd.feed) = 0
  /\ (lastCmd.cmd = "main_publish" /\ ~lastCmd.forced
        /\ lastCmd.submitted # 0) =>
       lastCmd.before[lastCmd.submitted].status # "published"

PostedOrders(data) ==
  {data[j].publish_order : j \in {k \in Indices(data) :
                                    data[k].status = "posted"}}

\* the effect of one publish-next run on the content file
C29_FrameEffect ==
  lastCmd.cmd = "publish_next" =>
    LET before == lastCmd.before
        i == lastCmd.index
    IN /\ Len(posts) = Len(before)
       /\ i = 0 => posts = before /\ lastCmd.saves = 0
       /\ i # 0 =>
            /\ before[i].status = "ready"
            /\ posts[i].status = "posted"
            /\ posts[i].instagram_media_id = MediaId
            /\ posts[i].publish_order
                 = Cardinality({j \in Indices(before) :
                                  before[j].status = "posted"}) + 1
            /\ posts[i].id = before[i].id
            /\ posts[i].type = before[i].type
            /\ posts[i].generated_image = before[i].generated_image
            /\ \A j \in Indices(before) \ {i} : posts[j] = before[j]

\* C29: publish-next changes the content file only when publish_image
\* returned "published"; then exactly one post changes, from ready to
\* posted, and receives instagram_media_id and publish_order = number of
\* posts posted before + 1, so that the publish_order values of the posted
\* posts are distinct; otherwise every post is left unchanged.
C29_PublishOrder ==
  /\ C29_FrameEffect
  /\ Cardinality(PostedOrders(posts))
       = Cardinality({k \in Indices(posts) : posts[k].status = "posted"})

\* a publish-next run that gives a post the publish_order of another
\* posted post
C29_DuplicateOrder ==
  /\ lastCmd.cmd = "publish_next"
  /\ lastCmd.index # 0
  /\ \E j \in Indices(posts) \ {lastCmd.index} :
       /\ posts[j].status = "posted"
       /\ posts[j].publish_order = posts[lastCmd.index].publish_order

\* C30: in a run of generate-content every id returned by get_next_id
\* differs from the id of every other post of the content data, old or
\* created in the same run, whatever ids the file held before.
C30_UniqueIds ==
  lastCmd.cmd = "generate_content" =>
    /\ \A i \in lastCmd.batch : \A j \in Indices(posts) \ {i} :
         posts[i].id # posts[j].id
    /\ \A i \in lastCmd.batch :
         /\ posts[i].id.prefix = prefix_of(posts[i].type)
         /\ Len(posts[i].id.suffix) >= 3
         /\ parse_int(posts[i].id.suffix) >= 1

\* a photo created in a file that holds an id with an unpadded number and
\* an id with a suffix that is not a number
C30_Witness ==
  /\ lastCmd.cmd = "generate_content"
  /\ lastCmd.batch = {3}
  /\ posts[1].id.suffix = <<"7">>
  /\ posts[2].id.suffix = <<"b", "i", "s">>
  /\ posts[3].id = [prefix |-> "ambiance_", suffix |-> <<"0", "0", "8">>]

\* two photos created in one run in a file whose only id is not a number
C30_WitnessSameRun ==
  /\ lastCmd.cmd = "generate_content"
  /\ lastCmd.batch = {2, 3}
  /\ posts[1].id.suffix = <<"x">>
  /\ posts[2].id.suffix = <<"0", "0", "1">>
  /\ posts[3].id.suffix = <<"0", "0", "2">>

----------------------------------------------------------------------------
(* C24 *)

CropCalled == srcImg # NoImage

InsideSource(img, box) ==
  /\ 0 <= box.left /\ box.left <= box.right /\ box.right <= img.width
  /\ 0 <= box.upper /\ box.upper <= box.lower /\ box.lower <= img.height

Centered(img, box) ==
  /\ Abs(box.left - (img.width - box.right)) <= 1
  /\ Abs(box.upper - (img.height - box.lower)) <= 1

LongerAxisOnly(img, box) ==
  IF img.width * H > img.height * W
    THEN box.upper = 0 /\ box.lower = img.height
    ELSE box.left = 0 /\ box.right = img.width

CropAsDescribed ==
  /\ LongerAxisOnly(srcImg, cropBox)
  /\ Centered(srcImg, cropBox)
  /\ InsideSource(srcImg, cropBox)
  /\ cropBox.right > cropBox.left
  /\ cropBox.lower > cropBox.upper
  /\ ~resized.raised
  /\ resized.width = W
  /\ resized.height = H

\* C24: for every source image of positive width and height,
\* resize_and_crop_to_fit crops only the longer axis relative to the canvas
\* aspect ratio (full height kept when the source is wider, full width kept
\* otherwise), the crop rectangle is centered, lies inside the source and has
\* positive width and height, and the result is W x H.
C24_CenteredCrop == CropCalled => CropAsDescribed

\* C24, sources at least two pixels high: everything C24 says holds.
C24_TwoPixelsHigh == (CropCalled /\ srcImg.height >= 2) => CropAsDescribed

\* C24, a source one pixel high: the crop rectangle has no width.
C24_EmptyCrop ==
  /\ srcImg = [width |-> 3, height |-> 1]
  /\ cropBox = [left |-> 1, upper |-> 0, right |-> 1, lower |-> 1]

\* C24: both branches are taken and crop something.
C24_WitnessWider ==
  /\ srcImg = [width |-> 4000, height |-> H]
  /\ cropBox = [left |-> 1460, upper |-> 0, right |-> 2540, lower |-> H]
  /\ resized = [raised |-> FALSE, width |-> W, height |-> H]

C24_WitnessTaller ==
  /\ srcImg = [width |-> W, height |-> 4000]
  /\ cropBox = [left |-> 0, upper |-> 1325, right |-> W, lower |-> 2675]

----------------------------------------------------------------------------
(* C28 *)

StepRank(call) ==
  CASE call = "upload_to_cloudinary" -> 1
    [] call = "create_media_container" -> 2
    [] call = "check_container_status" -> 3
    [] call = "publish_media" -> 4

InOrder ==
  /\ \A i \in 1..Len(igTrace), j \in 1..Len(igTrace) :
       i < j => StepRank(igTrace[i]) <= StepRank(igTrace[j])
  /\ \A call \in {"upload_to_cloudinary", "create_media_container",
                   "publish_media"} : Count(igTrace, call) <= 1
  /\ Count(igTrace, "publish_media") = 1 =>
       Count(igTrace, "create_media_container") = 1

PublishCalled == Count(igTrace, "publish_media") = 1

ReportedFinished ==
  Count(igTrace, "check_container_status") >= 1 /\ igStatus = "FINISHED"

TimedOut == igPc = "returned" /\ igWait /\ igStatus # "FINISHED"

TimeoutResult ==
  /\ TimedOut =>
       /\ igResult.status = "timeout"
       /\ igResult.media_id = "None"
       /\ ~PublishCalled
       /\ ~(igElapsed < max_wait)
  /\ (igPc = "returned" /\ igResult.status = "timeout") => TimedOut

ErrorRaises == igStatus = "ERROR" => igPc = "raised"

PublishedIffMediaId ==
  igPc = "returned" =>
    (igResult.status = "published" <=> igResult.media_id # "None")

\* C28: publish_image calls upload, create media container, check status
\* and publish in that order; publish_media is called only after the
\* container reported FINISHED; when polling times out the result has status
\* timeout and media_id None and publish_media is not called; a container
\* status ERROR raises; a returned result has status published exactly when
\* its media_id is set.
C28_PublishAfterFinished ==
  /\ InOrder
  /\ PublishCalled => ReportedFinished
  /\ TimeoutResult
  /\ ErrorRaises
  /\ PublishedIffMediaId

\* C28, amended: as C28, with publish_media called only after the container
\* reported FINISHED when wait_for_ready is true (the default); with
\* wait_for_ready false it is called right after the container is created,
\* without any status check.
C28_PublishAfterFinishedWhenWaiting ==
  /\ InOrder
  /\ PublishCalled =>
       IF igWait THEN ReportedFinished
       ELSE Count(igTrace, "check_container_status") = 0
  /\ TimeoutResult
  /\ ErrorRaises
  /\ PublishedIffMediaId

\* C28: a call that waited through a status that was not final, then got
\* FINISHED and published.
C28_Witness ==
  /\ igPc = "returned"
  /\ igWait
  /\ igResult.status = "published"
  /\ igTrace = <<"upload_to_cloudinary", "create_media_container",
                 "check_container_status", "check_container_status",
                 "publish_media">>

\* C28: a call that timed out.
C28_WitnessTimeout ==
  /\ igPc = "returned"
  /\ igResult = [image_url |-> "secure_url", container_id |-> "container_id",
                 media_id |-> "None", status |-> "timeout"]
  /\ Count(igTrace, "check_container_status") = 12

\* C28: a call that raised on the status ERROR.
C28_WitnessError ==
  /\ igPc = "raised"
  /\ igStatus = "ERROR"
  /\ igTrace[Len(igTrace)] = "check_container_status"

====
